---- MODULE Spec2Model ----
(***************************************************************************)
(* Model of the manifest backend (ooxoxx/manifest).                        *)
(*                                                                         *)
(* Part 1: the image/annotation reconciliation state machine driven by     *)
(* MinIO webhook records (app/api/routes/webhooks.py) and by watched-path  *)
(* syncs (app/api/routes/watched_paths.py), over the Sample, Annotation    *)
(* and SampleHistory tables of app/models.py.                              *)
(*                                                                         *)
(* Part 2: the services that are functions of their arguments and of the   *)
(* catalog: sampling (app/services/sampling_service.py), the tag filters   *)
(* of the sample listing (app/api/routes/samples.py) and of the dataset    *)
(* query, the tagging rules (app/services/auto_tagging_service.py), the   *)
(* tag tree (app/api/routes/tags.py) and the datasets                      *)
(* (app/api/routes/datasets.py).  The selection loop of the sampling       *)
(* service is also followed one iteration at a time, and two concurrent    *)
(* deliveries of an image-created record one query and commit at a time.   *)
(***************************************************************************)
EXTENDS Integers, Sequences, FiniteSets, Bags, TLC

\* ------------------------------------------------------------------------
\* Bounds of the model
\* ------------------------------------------------------------------------
\* rows the sample table may hold
MaxSamples == 2
\* rows the sample_history table may hold
MaxHistory == 4
\* records a logged run delivers
MaxTrace == 3

\* ------------------------------------------------------------------------
\* Values
\* ------------------------------------------------------------------------
\* Python None in a string-valued column
NULL == "NULL"
\* Python None in a key-valued column (annotation_key)
NoKey == <<>>
\* Python None in an id-valued column (annotation_id); no row found
NoId == 0

\* MinIOInstance rows and their owners (both instances belong to one user)
Instances == {1, 2}
owner_id == [i \in Instances |-> "u1"]

\* An object key is <<directory, basename without extension, extension>>:
\* "a/x.jpg" is <<"a", "x", "jpg">>.
ImageKeys == {<<"a", "x", "jpg">>, <<"b", "x", "jpg">>}
AnnotationKeys == {<<"a", "x", "xml">>, <<"b", "x", "xml">>,
                   <<"a", "y", "xml">>}
AllKeys == ImageKeys \cup AnnotationKeys

\* ETags of annotation objects; the ETag is the MD5 of the body, so it also
\* names the body.  h1 and h2 are well-formed VOC files, hm is malformed XML,
\* hv is well-formed XML with a non-integer coordinate.
BodyTags == {"h1", "h2", "hm", "hv"}

\* A path is <<instance, bucket, object key>>.
\* The reconciliation runs are about the keys of one bucket of one instance
LinkPaths == {<<1, "b1", k>> : k \in AllKeys}
LinkTags == {""}
\* The ingestion runs are about one image key in two instances, one
\* annotation key and two image hashes ("" is a record without eTag)
IngestPaths == {<<1, "b1", <<"a", "x", "jpg">> >>,
                <<2, "b2", <<"a", "x", "jpg">> >>,
                <<1, "b1", <<"a", "x", "xml">> >>}
IngestTags == {"", "g1"}
IngestAnnotationTags == {"h1"}

IMAGE_EXTENSIONS == {"jpg", "jpeg", "png", "gif", "bmp", "tiff", "webp"}
ANNOTATION_EXTENSIONS == {"xml"}

is_image_file(object_key) == object_key[3] \in IMAGE_EXTENSIONS
is_annotation_file(object_key) == object_key[3] \in ANNOTATION_EXTENSIONS

\* basename, then the extension removed
extract_file_stem(filename) == filename[2]

\* parse_voc_xml: the parsed annotation (named by its body), "None" on an
\* ET.ParseError, "ValueError" when int() of a field raises.
parse_voc_xml(xml_content) ==
    CASE xml_content = "hm" -> "None"
      [] xml_content = "hv" -> "ValueError"
      [] OTHER -> xml_content

\* ------------------------------------------------------------------------
\* State
\* ------------------------------------------------------------------------
VARIABLES
    samples,      \* the sample table: a sequence of rows, the id is the index
    annotations,  \* the annotation table: a set of rows
    history,      \* the sample_history table: a bag of rows
    issued,       \* number of annotation ids issued so far (uuid4 is fresh)
    last,         \* the request handled last: handler, return value, outcome
    trace,        \* the records delivered so far, in a logged run
    sample_tags,  \* the sample_tag table: a set of <<sample id, tag id>> rows
    candidates,   \* the candidate list handed to the sampling service
    call,         \* the service call made last: function, arguments, result
    tag_table,    \* the tag table: a sequence of rows, the id is the index
    datasets,     \* the dataset table: a sequence of rows, the id is the index
    dataset_samples  \* the dataset_sample table: <<dataset id, sample id>> rows

vars == <<samples, annotations, history, issued, last, trace,
          sample_tags, candidates, call, tag_table, datasets, dataset_samples>>

\* the tag tree and the datasets
table_vars == <<tag_table, datasets, dataset_samples>>

\* the state of the services of part 2, which the webhook and sync handlers
\* never touch
service_vars == <<sample_tags, candidates, call, table_vars>>
\* the state of part 1, which the sampling and filter services never touch
catalog_vars == <<samples, annotations, history, issued, last, trace>>

\* the database as one value
Db == [samples |-> samples, annotations |-> annotations,
       history |-> history, issued |-> issued]

SampleIds(d) == 1..Len(d.samples)

\* SampleHistory(sample_id=..., action=...)
SampleHistory(sample_id, action) == [sample_id |-> sample_id, action |-> action]

\* session.add(history) on the bag of history rows
add_history(h, row) == h (+) SetToBag({row})

\* the annotation row of a sample, if any (Annotation.sample_id)
AnnotationsOf(d, sid) == {a \in d.annotations : a.sample_id = sid}

\* result of a handler: the database after it, its return value, whether an
\* exception left the handler (the request answers 500), whether the session
\* is left needing a rollback
Result(d, ret, raised, pending) ==
    [db |-> d, ret |-> ret, raised |-> raised, pending |-> pending]

\* Query.first(): the row returned, NoId when no row matches.  The queries
\* carry no ORDER BY, so any matching row may be the one returned.
first(rows) == IF rows = {} THEN {NoId} ELSE rows

\* an object of a bucket listing, or the body get_object reads
Object(key, etag) == [key |-> key, etag |-> etag]
\* nothing found, nothing read
NoObject == Object(NoKey, NULL)

\* the objects of the bucket listing on which find_and_link_annotation can
\* stop: annotation files whose stem is the sample's
matching_objects(objects, file_stem) ==
    {o \in objects : /\ is_annotation_file(o.key)
                     /\ extract_file_stem(o.key) = file_stem}

\* the first of them in the listing (the listing order is the store's)
first_object(objs) == IF objs = {} THEN {NoObject} ELSE objs

\* a new Sample row
Sample(inst, owner, bucket, object_key, file_hash, file_stem, source) ==
    [inst |-> inst, owner |-> owner, bucket |-> bucket,
     object_key |-> object_key, status |-> "active",
     file_hash |-> file_hash, file_stem |-> file_stem,
     annotation_key |-> NoKey, annotation_hash |-> NULL,
     annotation_status |-> "none", annotation_id |-> NoId,
     deleted_at |-> NULL, source |-> source]

\* annotation.sample_id without the unique constraint: every INSERT passes
not_unique_sample_id(d, sid) == FALSE

\* the unique constraint on annotation.sample_id: the INSERT of a second
\* row for a sample fails at flush with an IntegrityError
violates_unique_sample_id(d, sid) == AnnotationsOf(d, sid) # {}

\* the link block without sample.annotation_id = annotation.id
link_annotation_without_id(d, sid, annotation_key, annotation_hash, parsed) ==
    LET id == d.issued + 1
    IN [samples |-> [d.samples EXCEPT ![sid] =
                        [@ EXCEPT !.annotation_key = annotation_key,
                                  !.annotation_hash = annotation_hash,
                                  !.annotation_status = "linked"]],
        annotations |-> d.annotations \cup
                        {[id |-> id, sample_id |-> sid, parsed |-> parsed]},
        history |-> add_history(d.history, SampleHistory(sid, "annotation_linked")),
        issued |-> id]

\* the block shared by find_and_link_annotation and _handle_annotation_created:
\* add the Annotation, update the sample, add the annotation_linked history
link_annotation(d, sid, annotation_key, annotation_hash, parsed) ==
    LET id == d.issued + 1
    IN [samples |-> [d.samples EXCEPT ![sid] =
                        [@ EXCEPT !.annotation_key = annotation_key,
                                  !.annotation_hash = annotation_hash,
                                  !.annotation_status = "linked",
                                  !.annotation_id = id]],
        annotations |-> d.annotations \cup
                        {[id |-> id, sample_id |-> sid, parsed |-> parsed]},
        history |-> add_history(d.history, SampleHistory(sid, "annotation_linked")),
        issued |-> id]

\* sample.annotation_status = AnnotationStatus.error; commit
mark_error(d, sid) == [d EXCEPT !.samples[sid].annotation_status = "error"]

\* the matching left out: the handler never looks for the annotation file
find_and_link_skipped(d, sid, obj, list_fails, get_fails) ==
    Result(d, FALSE, FALSE, FALSE)

\* find_and_link_annotation(session, sample, instance).  obj is the first
\* listed object that matches (NoObject when none does), list_fails and
\* get_fails say whether the object store raises.
find_and_link_annotation(d, sid, obj, list_fails, get_fails) ==
    LET sample == d.samples[sid]
        annotation_hash == IF obj.etag # "" THEN obj.etag ELSE NULL
        parsed == parse_voc_xml(obj.etag)
    IN IF sample.file_stem = NULL THEN Result(d, FALSE, FALSE, FALSE)
       ELSE IF list_fails \/ obj = NoObject THEN Result(d, FALSE, FALSE, FALSE)
       ELSE IF get_fails \/ parsed = "ValueError"
            THEN Result(mark_error(d, sid), FALSE, FALSE, FALSE)
       ELSE IF parsed = "None" THEN Result(d, FALSE, FALSE, FALSE)
       ELSE IF violates_unique_sample_id(d, sid)
            \* flush raises, the transaction is rolled back, the commit of the
            \* inner handler raises too and the outer handler swallows it
            THEN Result(d, FALSE, FALSE, TRUE)
       ELSE Result(link_annotation(d, sid, obj.key, annotation_hash, parsed),
                   TRUE, FALSE, FALSE)

\* ------------------------------------------------------------------------
\* The webhook handlers.  A record is [inst, bucket, key, etag]: the
\* instance of the URL, s3.bucket.name, s3.object.key and s3.object.eTag
\* with its quotes stripped ("" when the record has none).
\* ------------------------------------------------------------------------

\* select(Sample) of line 238: active samples of the instance with the hash
existing_by_hash(d, inst, file_hash) ==
    {i \in SampleIds(d) : /\ d.samples[i].inst = inst
                          /\ d.samples[i].file_hash = file_hash
                          /\ d.samples[i].status = "active"}

\* the path query with a filter on the status, as the hash query has one
existing_by_path_active(d, inst, bucket, object_key) ==
    {i \in SampleIds(d) : /\ d.samples[i].inst = inst
                          /\ d.samples[i].bucket = bucket
                          /\ d.samples[i].object_key = object_key
                          /\ d.samples[i].status = "active"}

\* select(Sample) by (instance, bucket, object_key), whatever the status
existing_by_path(d, inst, bucket, object_key) ==
    {i \in SampleIds(d) : /\ d.samples[i].inst = inst
                          /\ d.samples[i].bucket = bucket
                          /\ d.samples[i].object_key = object_key}

\* the stem query without the filter on the status
any_by_stem(d, inst, bucket, file_stem) ==
    {i \in SampleIds(d) : /\ d.samples[i].inst = inst
                          /\ d.samples[i].bucket = bucket
                          /\ d.samples[i].file_stem = file_stem}

\* select(Sample) of line 327: active samples of the bucket with the stem
active_by_stem(d, inst, bucket, file_stem) ==
    {i \in SampleIds(d) : /\ d.samples[i].inst = inst
                          /\ d.samples[i].bucket = bucket
                          /\ d.samples[i].file_stem = file_stem
                          /\ d.samples[i].status = "active"}

\* select(Sample) of line 470: samples of the bucket with the annotation key
by_annotation_key(d, inst, bucket, object_key) ==
    {i \in SampleIds(d) : /\ d.samples[i].inst = inst
                          /\ d.samples[i].bucket = bucket
                          /\ d.samples[i].annotation_key = object_key}

\* the reactivation that keeps the hash and stem the row had
reactivate_stale(d, existing, file_hash, file_stem) ==
    [d EXCEPT !.samples[existing] = [@ EXCEPT !.status = "active",
                                              !.deleted_at = NULL]]

\* the reactivation branch of _handle_image_created: the soft-deleted row
\* is active again, its hash and stem are those of the record
reactivate(d, existing, file_hash, file_stem) ==
    [d EXCEPT !.samples[existing] = [@ EXCEPT !.status = "active",
                                              !.deleted_at = NULL,
                                              !.file_hash = file_hash,
                                              !.file_stem = file_stem]]

\* _handle_image_created.  existing is what the path query returns; obj,
\* list_fails, get_fails are the object store's answers to the matching.
handle_image_created(d, e, existing, obj, list_fails, get_fails) ==
    LET file_hash == IF e.etag # "" THEN e.etag ELSE NULL
        file_stem == extract_file_stem(e.key)
        revived == reactivate(d, existing, file_hash, file_stem)
        sid == Len(d.samples) + 1
        created == [d EXCEPT
                        !.samples = Append(@, Sample(e.inst, owner_id[e.inst],
                                        e.bucket, e.key, file_hash, file_stem,
                                        "webhook")),
                        !.history = add_history(@, SampleHistory(sid, "created"))]
    IN IF file_hash # NULL /\ existing_by_hash(d, e.inst, file_hash) # {}
       THEN Result(d, 0, FALSE, FALSE)
       ELSE IF existing # NoId
       THEN IF d.samples[existing].status = "deleted"
            THEN LET r == find_and_link_annotation(revived, existing, obj,
                                                   list_fails, get_fails)
                 IN Result(r.db, 1, FALSE, r.pending)
            ELSE Result(d, 0, FALSE, FALSE)
       ELSE LET r == find_and_link_annotation(created, sid, obj,
                                              list_fails, get_fails)
            IN Result(r.db, 1, FALSE, r.pending)

\* the duplicate test on the key instead of the hash
same_annotation_key(sample, object_key, annotation_hash) ==
    sample.annotation_key = object_key

\* the duplicate test left out
never_same_annotation(sample, object_key, annotation_hash) == FALSE

\* the duplicate test of _handle_annotation_created: the record's hash is the
\* hash stored on the sample
same_annotation(sample, object_key, annotation_hash) ==
    sample.annotation_hash = annotation_hash

\* the conflict branch storing the new annotation's key and hash
mark_conflict_replacing(d, sid, object_key, annotation_hash) ==
    [d EXCEPT !.samples[sid].annotation_status = "conflict",
              !.samples[sid].annotation_key = object_key,
              !.samples[sid].annotation_hash = annotation_hash,
              !.history = add_history(@, SampleHistory(sid,
                                        "annotation_conflict"))]

\* the conflict branch of _handle_annotation_created: the status and a
\* history row; the stored annotation is left as it is
mark_conflict(d, sid, object_key, annotation_hash) ==
    [d EXCEPT !.samples[sid].annotation_status = "conflict",
              !.history = add_history(@, SampleHistory(sid,
                                        "annotation_conflict"))]

\* _handle_annotation_created.  sample is what the stem query returns,
\* body the object get_object reads (NoObject when the store raises).
handle_annotation_created(d, e, sample, body) ==
    LET annotation_hash == e.etag
        parsed == parse_voc_xml(body.etag)
    IN IF sample = NoId THEN Result(d, 0, FALSE, FALSE)
       ELSE IF d.samples[sample].annotation_status = "linked"
       THEN IF same_annotation(d.samples[sample], e.key, annotation_hash)
            THEN Result(d, 0, FALSE, FALSE)
            ELSE Result(mark_conflict(d, sample, e.key, annotation_hash),
                        1, FALSE, FALSE)
       ELSE IF body = NoObject \/ parsed = "ValueError" \/ parsed = "None"
            THEN Result(mark_error(d, sample), 0, FALSE, FALSE)
       ELSE IF violates_unique_sample_id(d, sample)
            \* flush raises and rolls back; the commit of the except block
            \* raises in turn and leaves the handler
            THEN Result(d, 0, TRUE, TRUE)
       ELSE Result(link_annotation(d, sample, e.key, annotation_hash, parsed),
                   1, FALSE, FALSE)

\* _handle_image_removed.  sample is what the path query returns.
handle_image_removed(d, e, sample) ==
    IF sample = NoId THEN Result(d, 0, FALSE, FALSE)
    ELSE Result([d EXCEPT
                    !.samples[sample] = [@ EXCEPT !.status = "deleted",
                                                  !.deleted_at = "set"],
                    !.history = add_history(@, SampleHistory(sample, "deleted"))],
                1, FALSE, FALSE)

\* _handle_annotation_removed.  sample is what the annotation-key query
\* returns.
handle_annotation_removed(d, e, sample) ==
    LET found == AnnotationsOf(d, sample)
        annotation == CHOOSE a \in found : TRUE
    IN IF sample = NoId THEN Result(d, 0, FALSE, FALSE)
       ELSE Result([d EXCEPT
                       !.annotations = IF found = {} THEN @
                                       ELSE @ \ {annotation},
                       !.samples[sample] =
                           [@ EXCEPT !.annotation_key = NoKey,
                                     !.annotation_hash = NULL,
                                     !.annotation_status = "none",
                                     !.annotation_id = NoId],
                       !.history = add_history(@, SampleHistory(sample,
                                                 "annotation_removed"))],
                   1, FALSE, FALSE)

\* ------------------------------------------------------------------------
\* sync_watched_path
\* ------------------------------------------------------------------------
\* all keys in the order a bucket listing yields them
KeyOrder == << <<"a", "x", "jpg">>, <<"a", "x", "xml">>,
               <<"a", "y", "xml">>, <<"b", "x", "jpg">>,
               <<"b", "x", "xml">> >>

\* the loop over the listed objects: a Sample for every key without a row
RECURSIVE sync_objects(_, _, _, _)
sync_objects(d, inst, bucket, objects) ==
    IF objects = <<>> THEN d
    ELSE LET object_key == Head(objects)
             sample == Sample(inst, owner_id[inst], bucket, object_key,
                              NULL, NULL, "sync")
         IN sync_objects(
                IF existing_by_path(d, inst, bucket, object_key) # {}
                THEN d
                ELSE [d EXCEPT !.samples = Append(@, sample)],
                inst, bucket, Tail(objects))

\* sync_watched_path for a watched path of (inst, bucket) whose listing
\* holds the keys listed; returns {"created": ..., "skipped": ...}
sync_watched_path(d, inst, bucket, listed) ==
    LET Listed(k) == k \in listed
        objects == SelectSeq(KeyOrder, Listed)
        after == sync_objects(d, inst, bucket, objects)
        created == Len(after.samples) - Len(d.samples)
    IN Result(after, created, FALSE, FALSE)

\* ------------------------------------------------------------------------
\* Initial state and actions
\* ------------------------------------------------------------------------
NoRequest == [op |-> "none", ret |-> 0, raised |-> FALSE]
\* no service call was made
NoCall == [op |-> "none"]
\* no tag and no dataset exists
NoTables ==
    /\ tag_table = <<>>
    /\ datasets = <<>>
    /\ dataset_samples = {}

Init ==
    /\ samples = <<>>
    /\ annotations = {}
    /\ history = EmptyBag
    /\ issued = 0
    /\ last = NoRequest
    /\ trace = <<>>
    /\ sample_tags = {}
    /\ candidates = <<>>
    /\ call = NoCall
    /\ NoTables

\* the tables take the handler's result; the tables are bounded
Commit(op, r) ==
    /\ UNCHANGED service_vars
    /\ Len(r.db.samples) <= MaxSamples
    /\ BagCardinality(r.db.history) <= MaxHistory
    /\ samples' = r.db.samples
    /\ annotations' = r.db.annotations
    /\ history' = r.db.history
    /\ issued' = r.db.issued
    /\ last' = [op |-> op, ret |-> r.ret, raised |-> r.raised]

\* a logged run records what was delivered, what the object store answered
\* and what the handler returned
Log(logged, op, e, answer, r) ==
    IF logged
    THEN /\ Len(trace) < MaxTrace
         /\ trace' = Append(trace, [op |-> op, e |-> e, answer |-> answer,
                                    ret |-> r.ret, raised |-> r.raised])
    ELSE trace' = trace

Record(path, etag) ==
    [inst |-> path[1], bucket |-> path[2], key |-> path[3], etag |-> etag]

\* ETags that annotation records carry
AnnotationTags == {"h1", "h2", "hm"}

\* what the object store can answer to the listing and the read of
\* find_and_link_annotation: the bucket holds at most one object
Listings ==
    {{}} \cup {{Object(k, t)} : k \in AllKeys, t \in BodyTags}
Answer(obj, list_fails, get_fails) ==
    [obj |-> obj, list_fails |-> list_fails, get_fails |-> get_fails]
NoAnswer == Answer(NoObject, FALSE, FALSE)
EmptyBucket == {{}}
\* Faults names the calls that may raise: "list" and "get"
ListAnswers(Stores, Faults, file_stem) ==
    {Answer(NoObject, TRUE, FALSE) : f \in Faults \cap {"list"}}
    \cup {Answer(o, FALSE, FALSE) :
            o \in UNION {first_object(matching_objects(l, file_stem)) :
                           l \in Stores}}
    \cup {Answer(o, FALSE, TRUE) :
            o \in UNION {matching_objects(l, file_stem) :
                           l \in IF "get" \in Faults THEN Stores ELSE {}}}
\* what get_object can answer in _handle_annotation_created: a body, or an
\* exception
Bodies(key, Contents) == {NoObject} \cup {Object(key, t) : t \in Contents}

\* s3:ObjectCreated record for an image key
ImageCreated(Paths, Tags, Stores, Faults, logged) ==
    \E path \in Paths, etag \in Tags :
      LET e == Record(path, etag) IN
      /\ is_image_file(e.key)
      /\ \E existing \in first(existing_by_path(Db, e.inst, e.bucket, e.key)),
            a \in ListAnswers(Stores, Faults, extract_file_stem(e.key)) :
           LET r == handle_image_created(Db, e, existing, a.obj,
                                         a.list_fails, a.get_fails)
           IN /\ Commit("image_created", r)
              /\ Log(logged, "image_created", e,
                     IF r.ret = 1 THEN a ELSE NoAnswer, r)

\* s3:ObjectCreated record for an annotation key
AnnotationCreated(Paths, Tags, Contents, logged) ==
    \E path \in Paths, etag \in Tags :
      LET e == Record(path, etag) IN
      /\ ~is_image_file(e.key) /\ is_annotation_file(e.key)
      /\ \E sample \in first(active_by_stem(Db, e.inst, e.bucket,
                                             extract_file_stem(e.key))),
            body \in Bodies(e.key, Contents) :
           LET r == handle_annotation_created(Db, e, sample, body)
               read == /\ sample # NoId
                       /\ samples[sample].annotation_status # "linked"
           IN /\ Commit("annotation_created", r)
              /\ Log(logged, "annotation_created", e,
                     Answer(IF read THEN body ELSE NoObject, FALSE,
                            read /\ body = NoObject), r)

\* s3:ObjectRemoved record for an image key
ImageRemoved(Paths, logged) ==
    \E path \in Paths :
      LET e == Record(path, "") IN
      /\ is_image_file(e.key)
      /\ \E sample \in first(existing_by_path(Db, e.inst, e.bucket, e.key)) :
           LET r == handle_image_removed(Db, e, sample)
           IN /\ Commit("image_removed", r)
              /\ Log(logged, "image_removed", e, NoAnswer, r)

\* s3:ObjectRemoved record for an annotation key
AnnotationRemoved(Paths, logged) ==
    \E path \in Paths :
      LET e == Record(path, "") IN
      /\ ~is_image_file(e.key) /\ is_annotation_file(e.key)
      /\ \E sample \in first(by_annotation_key(Db, e.inst, e.bucket, e.key)) :
           LET r == handle_annotation_removed(Db, e, sample)
           IN /\ Commit("annotation_removed", r)
              /\ Log(logged, "annotation_removed", e, NoAnswer, r)

\* POST /watched-paths/{id}/sync for a watched path of (instance, bucket)
\* whose listing holds the keys listed
SyncWatchedPath(Paths) ==
    \E loc \in {<<p[1], p[2]>> : p \in Paths} :
      \E listed \in SUBSET {p[3] : p \in {q \in Paths : <<q[1], q[2]>> = loc}} :
        /\ Commit("sync", sync_watched_path(Db, loc[1], loc[2], listed))
        /\ UNCHANGED trace

\* The reconciliation state machine: the records of one bucket, in any
\* order and any number of times.
Next ==
    \/ ImageCreated(LinkPaths, LinkTags, Listings, {"list", "get"}, FALSE)
    \/ AnnotationCreated(LinkPaths, AnnotationTags, BodyTags, FALSE)
    \/ ImageRemoved(LinkPaths, FALSE)
    \/ AnnotationRemoved(LinkPaths, FALSE)

Spec == Init /\ [][Next]_vars

\* Ingestion: records and syncs over several buckets and instances.
NextIngest ==
    \/ ImageCreated(IngestPaths, IngestTags, EmptyBucket, {}, FALSE)
    \/ ImageRemoved(IngestPaths, FALSE)
    \/ AnnotationCreated(IngestPaths, IngestAnnotationTags,
                         IngestAnnotationTags, FALSE)
    \/ AnnotationRemoved(IngestPaths, FALSE)
    \/ SyncWatchedPath(IngestPaths)

SpecIngest == Init /\ [][NextIngest]_vars

\* Logged runs: every sequence of at most MaxTrace records about two images
\* and one annotation key of one bucket, from the empty catalog, with what
\* the object store answered.
TracePaths == {<<1, "b1", k>> : k \in ImageKeys \cup {<<"a", "x", "xml">>}}
TraceTags == {"h1", "h2"}
TraceContents == {"h1", "h2", "hm"}
TraceListings ==
    {{}} \cup {{Object(<<"a", "x", "xml">>, t)} : t \in TraceTags \cup {"hv"}}

NextTrace ==
    \/ ImageCreated(TracePaths, LinkTags, TraceListings, {"get"}, TRUE)
    \/ AnnotationCreated(TracePaths, TraceTags, TraceContents, TRUE)
    \/ ImageRemoved(TracePaths, TRUE)
    \/ AnnotationRemoved(TracePaths, TRUE)

SpecTrace == Init /\ [][NextTrace]_vars

\* ------------------------------------------------------------------------
\* Properties of ingestion (SpecIngest)
\* ------------------------------------------------------------------------
\* the rows of the sample table at a path
RowsAt(d, path) ==
    {i \in SampleIds(d) : /\ d.samples[i].inst = path[1]
                          /\ d.samples[i].bucket = path[2]
                          /\ d.samples[i].object_key = path[3]}

ImagePaths(Paths) == {p \in Paths : is_image_file(p[3])}

C10_SkipsDuplicateOfOwner ==
    \A path \in ImagePaths(IngestPaths), etag \in IngestTags \ {""} :
      LET e == Record(path, etag)
          duplicate == \E i \in SampleIds(Db) :
                          /\ samples[i].status = "active"
                          /\ samples[i].owner = owner_id[e.inst]
                          /\ samples[i].file_hash = etag
      IN duplicate =>
           \A existing \in first(existing_by_path(Db, e.inst, e.bucket, e.key)) :
             LET r == handle_image_created(Db, e, existing,
                                           NoObject, FALSE, FALSE)
             IN /\ r.ret = 0
                /\ r.db.samples = samples

\* ------------------------------------------------------------------------
\* Properties of the reconciliation state machine (Spec)
\* ------------------------------------------------------------------------
\* C5: in every state reachable by webhook records each Sample has at most
\* one Annotation row.
C5_OneAnnotationPerSample ==
    \A sid \in SampleIds(Db) : Cardinality(AnnotationsOf(Db, sid)) <= 1

\* C5 witness: an annotation-created record for a Sample in conflict, which
\* has its Annotation, was parsed and its INSERT was refused
C5_SecondInsertRefused ==
    /\ last.op = "annotation_created"
    /\ last.raised
    /\ \E sid \in SampleIds(Db) :
         /\ samples[sid].annotation_status = "conflict"
         /\ Cardinality(AnnotationsOf(Db, sid)) = 1

\* C3: no webhook record sets a Sample whose annotation_status is conflict
\* or error to linked.
C3_NoRelinkFromConflictOrError ==
    [][\A sid \in SampleIds(Db) :
         samples[sid].annotation_status \in {"conflict", "error"}
           => samples'[sid].annotation_status # "linked"]_vars

\* C7: once a Sample's annotation_status is conflict, no webhook record
\* changes its annotation_status, its annotation key and hash or its
\* Annotation row.
C7_ConflictIsKept ==
    [][\A sid \in SampleIds(Db) :
         samples[sid].annotation_status = "conflict"
           => /\ samples'[sid].annotation_status = "conflict"
              /\ samples'[sid].annotation_key = samples[sid].annotation_key
              /\ samples'[sid].annotation_hash = samples[sid].annotation_hash
              /\ samples'[sid].annotation_id = samples[sid].annotation_id
              /\ AnnotationsOf(Db', sid) = AnnotationsOf(Db, sid)]_vars

\* C9: an image-removed or annotation-removed record delivered a second
\* time, immediately after the first, leaves samples, annotations and
\* history as the first delivery left them.
C9_RemovalReplayChangesNothing ==
    \A path \in LinkPaths :
      LET e == Record(path, "") IN
      /\ is_image_file(e.key) =>
           \A sample \in first(existing_by_path(Db, e.inst, e.bucket, e.key)) :
             LET once == handle_image_removed(Db, e, sample)
             IN \A again \in first(existing_by_path(once.db, e.inst, e.bucket,
                                                    e.key)) :
                  handle_image_removed(once.db, e, again).db = once.db
      /\ is_annotation_file(e.key) =>
           \A sample \in first(by_annotation_key(Db, e.inst, e.bucket, e.key)) :
             LET once == handle_annotation_removed(Db, e, sample)
             IN \A again \in first(by_annotation_key(once.db, e.inst, e.bucket,
                                                     e.key)) :
                  handle_annotation_removed(once.db, e, again).db = once.db

\* ------------------------------------------------------------------------
\* Properties of logged runs (SpecTrace)
\* ------------------------------------------------------------------------
\* the annotation key of the logged runs
TraceAnnotation == <<"a", "x", "xml">>

\* the catalog holds one Sample, whose annotation is the file of hash h:
\* its key and hash, its one Annotation row with the parsed content
HoldsAnnotation(h) ==
    /\ Len(samples) = 1
    /\ samples[1].annotation_key = TraceAnnotation
    /\ samples[1].annotation_hash = h
    /\ annotations = {[id |-> samples[1].annotation_id, sample_id |-> 1,
                       parsed |-> parse_voc_xml(h)]}

\* the run is image-created, annotation-created with hash h1, annotation-
\* created with hash h2, all of one stem and bucket; the first annotation
\* is parsable, and it is the only one the bucket can list when the image
\* arrives
C2_Sequence(h1, h2) ==
    /\ Len(trace) = 3
    /\ trace[1].op = "image_created"
    /\ trace[1].answer.obj \in {NoObject, Object(TraceAnnotation, h1)}
    /\ trace[2].op = "annotation_created"
    /\ trace[2].e.etag = h1
    /\ extract_file_stem(trace[2].e.key) = extract_file_stem(trace[1].e.key)
    /\ ~trace[2].answer.get_fails
    /\ trace[2].answer.obj \in {NoObject, Object(TraceAnnotation, h1)}
    /\ trace[3].op = "annotation_created"
    /\ trace[3].e.etag = h2
    /\ trace[3].e.key = trace[2].e.key

\* C2: after image-created, annotation-created (hash h1, parsable) and
\* annotation-created (hash h2 # h1) for one stem, the annotation_status is
\* conflict, the Sample has exactly one annotation_conflict history entry,
\* and the Annotation row and the stored key and hash are those of the
\* first annotation.
C2_SecondAnnotationConflicts ==
    \A h1 \in TraceTags : \A h2 \in TraceTags \ {h1} :
      C2_Sequence(h1, h2) =>
        /\ HoldsAnnotation(h1)
        /\ samples[1].annotation_status = "conflict"
        /\ CopiesIn(SampleHistory(1, "annotation_conflict"), history) = 1

\* C2 witness: the three records were delivered, the first annotation
\* linked by its own record
C2_SequenceDelivered ==
    /\ \E h1 \in TraceTags : \E h2 \in TraceTags \ {h1} : C2_Sequence(h1, h2)
    /\ trace[1].answer.obj = NoObject
    /\ trace[2].ret = 1
    /\ trace[3].ret = 1

\* the run delivers image-created records of one image and annotation-
\* created records of one parsable annotation file of hash h, no call to
\* the object store fails, and the bucket lists the annotation when an
\* image record is processed after an annotation record
C6_Run(h) ==
    /\ \E img \in ImageKeys :
         \A k \in 1..Len(trace) :
           \/ /\ trace[k].op = "image_created"
              /\ trace[k].e.key = img
              /\ ~trace[k].answer.list_fails
              /\ ~trace[k].answer.get_fails
              /\ trace[k].answer.obj \in {NoObject, Object(TraceAnnotation, h)}
              /\ (/\ trace[k].ret = 1
                  /\ \E j \in 1..(k - 1) : trace[j].op = "annotation_created")
                   => trace[k].answer.obj = Object(TraceAnnotation, h)
           \/ /\ trace[k].op = "annotation_created"
              /\ trace[k].e.etag = h
              /\ ~trace[k].answer.get_fails
              /\ trace[k].answer.obj \in {NoObject, Object(TraceAnnotation, h)}
    /\ \E k \in 1..Len(trace) : trace[k].op = "image_created"
    /\ \E k \in 1..Len(trace) : trace[k].op = "annotation_created"

\* C6: for one image and one parsable annotation file of the same stem,
\* once the image-created and the annotation-created record have each been
\* processed, in either order and any number of times, the Sample is linked
\* to the annotation's key and hash, with exactly one Annotation row and
\* exactly one annotation_linked history entry.
C6_LinkedInEitherOrder ==
    \A h \in TraceTags :
      C6_Run(h) =>
        /\ HoldsAnnotation(h)
        /\ samples[1].annotation_status = "linked"
        /\ CopiesIn(SampleHistory(1, "annotation_linked"), history) = 1

\* C6 witness: the annotation record came first, then the image record,
\* then the annotation record again
C6_AnnotationFirst ==
    /\ \E h \in TraceTags : C6_Run(h)
    /\ Len(trace) = 3
    /\ trace[1].op = "annotation_created"
    /\ trace[2].op = "image_created"
    /\ trace[3].op = "annotation_created"

\* C8: an annotation-created record whose hash is the annotation_hash of
\* the linked Sample it matches is a no-op: 0 processed, nothing raised,
\* samples, annotations and history unchanged, the Sample linked with its
\* one Annotation row.
C8_SameHashIsNoOp ==
    \A path \in TracePaths, etag \in TraceTags :
      LET e == Record(path, etag) IN
      is_annotation_file(e.key) =>
        \A sample \in first(active_by_stem(Db, e.inst, e.bucket,
                                            extract_file_stem(e.key))),
           body \in Bodies(e.key, TraceContents) :
          (/\ sample # NoId
           /\ samples[sample].annotation_status = "linked"
           /\ samples[sample].annotation_hash = etag)
            => LET r == handle_annotation_created(Db, e, sample, body)
               IN /\ r.ret = 0
                  /\ ~r.raised
                  /\ r.db = Db
                  /\ Cardinality(AnnotationsOf(Db, sample)) = 1

\* C8 witness: the record that linked the Sample was delivered again
C8_Replayed ==
    /\ Len(trace) = 3
    /\ trace[2].op = "annotation_created"
    /\ trace[2].ret = 1
    /\ trace[3].op = "annotation_created"
    /\ trace[3].e = trace[2].e
    /\ trace[3].ret = 0
    /\ Len(samples) = 1
    /\ samples[1].annotation_status = "linked"
    /\ samples[1].annotation_hash = trace[3].e.etag
    /\ CopiesIn(SampleHistory(1, "annotation_linked"), history) = 1

\* the stored annotation of a Sample is what it was: key, hash, id and
\* Annotation row
AnnotationKept(sid) ==
    /\ samples'[sid].annotation_key = samples[sid].annotation_key
    /\ samples'[sid].annotation_hash = samples[sid].annotation_hash
    /\ samples'[sid].annotation_id = samples[sid].annotation_id
    /\ AnnotationsOf(Db', sid) = AnnotationsOf(Db, sid)

\* the record t brings an annotation file that differs from the one stored
\* on the Sample: an annotation-created record with another hash, or an
\* image-created record whose matching finds an object with another hash
Differing(t, sid) ==
    \/ /\ t.op = "annotation_created"
       /\ t.e.etag # samples[sid].annotation_hash
    \/ /\ t.op = "image_created"
       /\ t.answer.obj # NoObject
       /\ t.answer.obj.etag # samples[sid].annotation_hash

Target(d, existing) == IF existing = NoId THEN Len(d.samples) + 1 ELSE existing

\* bodies that do not parse: malformed XML, a non-integer coordinate
Unparsable == {t \in BodyTags : parse_voc_xml(t) \in {"None", "ValueError"}}

\* the annotation fields and the Annotation row of a Sample are in db what
\* they are in the catalog
SameAnnotationState(db, sid) ==
    /\ db.samples[sid].annotation_status = samples[sid].annotation_status
    /\ db.samples[sid].annotation_key = samples[sid].annotation_key
    /\ db.samples[sid].annotation_hash = samples[sid].annotation_hash
    /\ db.samples[sid].annotation_id = samples[sid].annotation_id
    /\ AnnotationsOf(db, sid) = AnnotationsOf(Db, sid)

\* C11: when the annotation payload does not parse, in annotation-created
\* or in the matching of image-created, the Sample's annotation_status
\* becomes error, no Annotation row and no annotation_linked history entry
\* is added, and nothing is raised (the session stays usable for the
\* remaining records of the batch).
C11_ParseFailureIsError ==
    \A path \in LinkPaths :
      LET e == Record(path, "") IN
      /\ is_image_file(e.key) =>
           \A existing \in first(existing_by_path(Db, e.inst, e.bucket, e.key)),
              k \in AnnotationKeys, t \in Unparsable :
             LET r == handle_image_created(Db, e, existing, Object(k, t),
                                           FALSE, FALSE)
                 sid == Target(Db, existing)
             IN (r.ret = 1 /\ extract_file_stem(k) = extract_file_stem(e.key))
                  => /\ r.db.samples[sid].annotation_status = "error"
                     /\ r.db.annotations = annotations
                     /\ CopiesIn(SampleHistory(sid, "annotation_linked"),
                                 r.db.history)
                          = CopiesIn(SampleHistory(sid, "annotation_linked"),
                                     history)
                     /\ ~r.raised /\ ~r.pending
      /\ is_annotation_file(e.key) =>
           \A sample \in first(active_by_stem(Db, e.inst, e.bucket,
                                               extract_file_stem(e.key))),
              t \in Unparsable :
             LET r == handle_annotation_created(Db, [e EXCEPT !.etag = t],
                                                sample, Object(e.key, t))
             IN (sample # NoId /\ samples[sample].annotation_status # "linked")
                  => /\ r.db.samples[sample].annotation_status = "error"
                     /\ r.db.annotations = annotations
                     /\ r.db.history = history
                     /\ ~r.raised /\ ~r.pending

\* C12: when the object store fails while the annotation object is listed
\* or fetched, in annotation-created or in the matching of image-created,
\* the annotation_status, annotation key and hash and Annotation row of
\* every Sample are after the record what they were before it.
C12_StoreFailureChangesNothing ==
    \A path \in LinkPaths :
      LET e == Record(path, "") IN
      /\ is_image_file(e.key) =>
           \A existing \in first(existing_by_path(Db, e.inst, e.bucket, e.key)),
              a \in ListAnswers(Listings, {"list", "get"},
                                extract_file_stem(e.key)) :
             (a.list_fails \/ a.get_fails) =>
               LET r == handle_image_created(Db, e, existing, a.obj,
                                             a.list_fails, a.get_fails)
               IN \A sid \in SampleIds(Db) : SameAnnotationState(r.db, sid)
      /\ is_annotation_file(e.key) =>
           \A sample \in first(active_by_stem(Db, e.inst, e.bucket,
                                               extract_file_stem(e.key))),
              etag \in AnnotationTags :
             LET r == handle_annotation_created(Db, [e EXCEPT !.etag = etag],
                                                sample, NoObject)
             IN \A sid \in SampleIds(Db) : SameAnnotationState(r.db, sid)

\* C13: an annotation-created record whose stem matches no active Sample of
\* its (instance, bucket), and an annotation-removed record whose key is no
\* Sample's annotation_key, change no sample, annotation or history row and
\* count as 0 processed.
C13_OrphanRecordsIgnored ==
    \A path \in LinkPaths :
      LET e == Record(path, "")
          matched == \E i \in SampleIds(Db) :
                        /\ samples[i].inst = e.inst
                        /\ samples[i].bucket = e.bucket
                        /\ samples[i].status = "active"
                        /\ samples[i].file_stem = extract_file_stem(e.key)
          stored == \E i \in SampleIds(Db) :
                        /\ samples[i].inst = e.inst
                        /\ samples[i].bucket = e.bucket
                        /\ samples[i].annotation_key = e.key
      IN is_annotation_file(e.key) =>
           /\ ~matched =>
                \A sample \in first(active_by_stem(Db, e.inst, e.bucket,
                                                    extract_file_stem(e.key))),
                   etag \in AnnotationTags, body \in Bodies(e.key, BodyTags) :
                  handle_annotation_created(Db, [e EXCEPT !.etag = etag],
                                            sample, body)
                    = Result(Db, 0, FALSE, FALSE)
           /\ ~stored =>
                \A sample \in first(by_annotation_key(Db, e.inst, e.bucket,
                                                       e.key)) :
                  handle_annotation_removed(Db, e, sample)
                    = Result(Db, 0, FALSE, FALSE)

\* C13 witness: an annotation-created record arrived while the only Sample
\* of its stem was soft-deleted, and was ignored
C13_OrphanDelivered ==
    /\ last = [op |-> "annotation_created", ret |-> 0, raised |-> FALSE]
    /\ Len(samples) = 1
    /\ samples[1].status = "deleted"
    /\ samples[1].annotation_status = "none"

\* ------------------------------------------------------------------------
\* Reactivation (SpecIngest)
\* ------------------------------------------------------------------------
\* C14: an image-created record for the path of a soft-deleted Sample, with
\* a hash that no active Sample has, makes that row active again, with
\* deleted_at cleared and hash and stem those of the record, and adds no
\* row; and image-created, image-removed, image-created for one path leave
\* exactly one row at the path, which is active.
C14_Reactivation ==
    \A path \in ImagePaths(IngestPaths), etag \in IngestTags :
      LET e == Record(path, etag)
          file_hash == IF etag # "" THEN etag ELSE NULL
          duplicate == \E i \in SampleIds(Db) :
                          /\ samples[i].status = "active"
                          /\ samples[i].file_hash = file_hash
                          /\ file_hash # NULL
      IN \A existing \in first(existing_by_path(Db, e.inst, e.bucket, e.key)) :
           LET first_time == handle_image_created(Db, e, existing,
                                                  NoObject, FALSE, FALSE)
           IN /\ (/\ existing # NoId
                  /\ samples[existing].status = "deleted"
                  /\ ~duplicate)
                   => /\ first_time.ret = 1
                      /\ Len(first_time.db.samples) = Len(samples)
                      /\ first_time.db.samples[existing] =
                           [samples[existing] EXCEPT
                              !.status = "active",
                              !.deleted_at = NULL,
                              !.file_hash = file_hash,
                              !.file_stem = extract_file_stem(e.key)]
              /\ first_time.ret = 1 =>
                   \A found \in first(existing_by_path(first_time.db, e.inst,
                                                       e.bucket, e.key)) :
                     LET removed == handle_image_removed(first_time.db, e, found)
                     IN \A again \in first(existing_by_path(removed.db, e.inst,
                                                            e.bucket, e.key)) :
                          LET back == handle_image_created(removed.db, e, again,
                                                           NoObject, FALSE, FALSE)
                          IN /\ Cardinality(RowsAt(back.db, path)) = 1
                             /\ \A i \in RowsAt(back.db, path) :
                                  /\ back.db.samples[i].status = "active"
                                  /\ back.db.samples[i].deleted_at = NULL

\* C14 witness: a Sample created by a sync was removed and then reactivated
\* by an image-created record that carries a hash
C14_Reactivated ==
    /\ last = [op |-> "image_created", ret |-> 1, raised |-> FALSE]
    /\ Len(samples) = 1
    /\ samples[1].source = "sync"
    /\ samples[1].status = "active"
    /\ samples[1].file_hash = "g1"
    /\ samples[1].file_stem = "x"
    /\ CopiesIn(SampleHistory(1, "deleted"), history) = 1

\* ========================================================================
\* Part 2: sampling (app/services/sampling_service.py)
\* ========================================================================
\* candidates the sampling service is handed at most
MaxCandidates == 2

\* class names of annotations and of targets
Classes == {"car", "person"}
\* how many objects of one class a candidate holds
CountValues == 0..2
\* the targets a request may ask for.  The scores are sums of
\* contribution / target; with these targets every quotient is a multiple
\* of 1/2 and the float arithmetic of the code is exact.
TargetValues == 0..2
\* the counts random_sample is asked for
Counts == -1..(MaxCandidates + 1)

\* sample.class_counts: a class the dictionary lacks counts 0
\* (class_counts.get(cls, 0)); an empty dictionary is the function that is 0
ClassCounts == [Classes -> CountValues]
\* class_targets: a dictionary over some of the classes
ClassTargets == UNION {[D -> TargetValues] : D \in SUBSET Classes}
\* the candidate lists: objects told apart by their identity
CandidateLists ==
    UNION {{[i \in 1..n |-> [id |-> i, class_counts |-> cc[i]]] :
                cc \in [1..n -> ClassCounts]} : n \in 0..MaxCandidates}

Min(a, b) == IF a <= b THEN a ELSE b
Max(a, b) == IF a >= b THEN a ELSE b

\* sum(f[x] for x in S)
RECURSIVE sum(_, _)
sum(f, S) ==
    IF S = {} THEN 0
    ELSE LET x == CHOOSE y \in S : TRUE IN f[x] + sum(f, S \ {x})

RECURSIVE product(_, _)
product(f, S) ==
    IF S = {} THEN 1
    ELSE LET x == CHOOSE y \in S : TRUE IN f[x] * product(f, S \ {x})

\* get_class_counts(sample)
get_class_counts(sample) == sample.class_counts

\* the classes whose remaining target is positive
open_classes(remaining) == {cls \in DOMAIN remaining : remaining[cls] > 0}

\* the scores of one iteration are fractions over the remaining targets;
\* they are compared over their common denominator, the product of the
\* positive remaining targets
denominator(remaining) == product(remaining, open_classes(remaining))

\* calculate_score(sample) times denominator(remaining):
\* the sum over the classes with remaining target > 0 of
\* min(class_counts.get(cls, 0), target) / target
calculate_score(sample, remaining) ==
    LET open == open_classes(remaining)
        class_counts == get_class_counts(sample)
    IN  sum([cls \in open |->
                Min(class_counts[cls], remaining[cls])
                    * (denominator(remaining) \div remaining[cls])],
            open)

\* list.sort(key=calculate_score, reverse=True): a stable sort, candidates
\* of equal score keep their order
RECURSIVE insert_by_score(_, _, _)
insert_by_score(sorted, x, remaining) ==
    IF sorted = <<>> THEN <<x>>
    ELSE IF calculate_score(Head(sorted), remaining)
                >= calculate_score(x, remaining)
         THEN <<Head(sorted)>> \o insert_by_score(Tail(sorted), x, remaining)
         ELSE <<x>> \o sorted

RECURSIVE sort_by_score(_, _)
sort_by_score(list, remaining) ==
    IF list = <<>> THEN <<>>
    ELSE insert_by_score(
             sort_by_score(SubSeq(list, 1, Len(list) - 1), remaining),
             list[Len(list)], remaining)

\* remaining[cls] = max(0, remaining[cls] - count) for the classes of best
update_remaining(remaining, best) ==
    [cls \in DOMAIN remaining |->
        Max(0, remaining[cls] - get_class_counts(best)[cls])]

\* the while loop of sample_by_class_targets
RECURSIVE select_loop(_, _, _)
select_loop(remaining, selected, candidate_list) ==
    IF open_classes(remaining) = {} \/ candidate_list = <<>>
    THEN selected
    ELSE LET sorted == sort_by_score(candidate_list, remaining)
         IN  IF calculate_score(sorted[1], remaining) = 0
             THEN selected
             ELSE select_loop(update_remaining(remaining, sorted[1]),
                              Append(selected, sorted[1]), Tail(sorted))

ClassAchievement(target, actual, status) ==
    [target |-> target, actual |-> actual, status |-> status]

SamplingResult(selected_samples, target_achievement) ==
    [selected_samples |-> selected_samples,
     target_achievement |-> target_achievement,
     total_selected |-> Len(selected_samples)]

\* actual = sum(get_class_counts(s).get(cls, 0) for s in selected)
actual_of(selected, cls) ==
    sum([i \in 1..Len(selected) |-> get_class_counts(selected[i])[cls]],
        1..Len(selected))

\* the achievement report of a completed selection
achievement_of(selected, class_targets) ==
    [cls \in DOMAIN class_targets |->
        LET actual == actual_of(selected, cls)
        IN  ClassAchievement(class_targets[cls], actual,
                IF actual >= class_targets[cls] THEN "achieved"
                                                ELSE "partial")]

\* the report of the early return: every class partial
achievement_of_nothing(class_targets) ==
    [cls \in DOMAIN class_targets |->
        ClassAchievement(class_targets[cls], 0, "partial")]

sample_by_class_targets(cands, class_targets) ==
    IF cands = <<>>
    THEN SamplingResult(<<>>, achievement_of_nothing(class_targets))
    ELSE LET selected == select_loop(class_targets, <<>>, cands)
         IN  SamplingResult(selected,
                            achievement_of(selected, class_targets))

\* the lists of k elements taken from k different positions of a list
Selections(list, k) ==
    {[i \in 1..k |-> list[p[i]]] :
        p \in {q \in [1..k -> 1..Len(list)] :
                  \A i \in 1..k : \A j \in 1..k : q[i] = q[j] => i = j}}

\* random.sample(population, k): ValueError when k is negative or larger
\* than the population, else any k elements of different positions
random_dot_sample(population, k) ==
    IF k < 0 \/ k > Len(population)
    THEN {[raised |-> "ValueError", value |-> <<>>]}
    ELSE {[raised |-> "", value |-> v] : v \in Selections(population, k)}

\* random_sample without the clamp
random_sample_unclamped(cands, count) == random_dot_sample(cands, count)

\* random_sample(candidates, count, seed): the lists it can return; the
\* seed, or its absence, picks one of them
random_sample(cands, count) ==
    random_dot_sample(cands, Min(count, Len(cands)))

\* a sampling request is handed a candidate list.  The services of part 2
\* below change nothing they read: one call is followed per behaviour.
InitSampling ==
    /\ samples = <<>>
    /\ annotations = {}
    /\ history = EmptyBag
    /\ issued = 0
    /\ last = NoRequest
    /\ trace = <<>>
    /\ sample_tags = {}
    /\ candidates \in CandidateLists
    /\ call = NoCall
    /\ NoTables

SampleByClassTargets ==
    /\ call = NoCall
    /\ \E class_targets \in ClassTargets :
          call' = [op |-> "sample_by_class_targets",
                   class_targets |-> class_targets,
                   ret |-> sample_by_class_targets(candidates, class_targets)]
    /\ UNCHANGED <<catalog_vars, sample_tags, candidates, table_vars>>

RandomSample ==
    /\ call = NoCall
    /\ \E count \in Counts :
          \E ret \in random_sample(candidates, count) :
              call' = [op |-> "random_sample", count |-> count, ret |-> ret]
    /\ UNCHANGED <<catalog_vars, sample_tags, candidates, table_vars>>

NextSampling ==
    \/ SampleByClassTargets
    \/ RandomSample

SpecSampling == InitSampling /\ [][NextSampling]_vars

\* ------------------------------------------------------------------------
\* C15: for every candidate list and target map, sample_by_class_targets
\* reports for each requested class actual = the sum of that class's counts
\* over the selected samples and status achieved exactly when
\* actual >= target, partial otherwise; so a class whose target is 0 is
\* reported achieved for every candidate list.
\* ------------------------------------------------------------------------
C15_AchievementReport ==
    call.op = "sample_by_class_targets" =>
        \A cls \in DOMAIN call.class_targets :
            LET a == call.ret.target_achievement[cls]
                selected == call.ret.selected_samples
            IN  /\ a.target = call.class_targets[cls]
                /\ a.actual = actual_of(selected, cls)
                /\ a.status = (IF a.actual >= a.target THEN "achieved"
                                                       ELSE "partial")
                /\ (a.target = 0 => a.status = "achieved")

\* ------------------------------------------------------------------------
\* C16: random_sample returns exactly min(count, len(candidates)) pairwise
\* distinct elements of the candidate list for every count >= 0, clamping
\* when count exceeds the number of candidates, and signals an error only
\* when count is negative.
\* ------------------------------------------------------------------------
C16_RandomSampleClamps ==
    call.op = "random_sample" =>
        IF call.count < 0
        THEN call.ret.raised = "ValueError"
        ELSE LET value == call.ret.value
             IN  /\ call.ret.raised = ""
                 /\ Len(value) = Min(call.count, Len(candidates))
                 /\ \A i \in 1..Len(value) :
                        \E p \in 1..Len(candidates) : value[i] = candidates[p]
                 /\ \A i \in 1..Len(value) : \A j \in 1..Len(value) :
                        value[i] = value[j] => i = j

\* a request for more than the list holds was answered
C16_Clamped ==
    /\ call.op = "random_sample"
    /\ Len(candidates) >= 2
    /\ call.count > Len(candidates)
    /\ call.ret.raised = ""
    /\ Len(call.ret.value) = Len(candidates)

\* ========================================================================
\* Part 2: tags of samples and the tag filters
\* (app/api/routes/samples.py, app/services/sampling_service.py)
\* ========================================================================
\* the ids of the tag table
TagIds == {"t1", "t2"}
\* a string of a request that is no UUID: uuid.UUID(t) raises ValueError
BadId == "bad"
\* the user whose requests are modelled
current_user == "u1"

\* the catalogs the services work on: rows of different paths of one bucket,
\* in the statuses the webhook handlers leave them in
CatalogRows ==
    LET row(k) == Sample(1, owner_id[1], "b1", k, "g1",
                         extract_file_stem(k), "webhook")
    IN  {row(k) : k \in ImageKeys}
            \cup {[row(k) EXCEPT !.status = "deleted", !.deleted_at = "set"] :
                     k \in ImageKeys}
Catalogs ==
    {c \in UNION {[1..n -> CatalogRows] : n \in 0..MaxSamples} :
        \A i \in DOMAIN c : \A j \in DOMAIN c :
            c[i].object_key = c[j].object_key => i = j}

\* the primary key (sample_id, tag_id) makes the table a set of pairs
SampleTag(sample_id, tag_id) == <<sample_id, tag_id>>

\* the tags of a sample
tags_of(tags, sid) == {t \in TagIds : SampleTag(sid, t) \in tags}

\* the elements of a Python list
elements(list) == {list[i] : i \in DOMAIN list}

\* a list of tag ids of a request: at most two entries, repeats allowed
TagLists == UNION {[1..n -> TagIds] : n \in 0..2}
\* the groups of a tag_filter of the listing, where the ids arrive as text
TagGroups == TagLists \cup {<<BadId>>}
\* the tag_filter parameter after json.loads: a list of groups.  A missing
\* parameter and "[]" take the same branch and are both the empty list.
TagFilters == UNION {[1..n -> TagGroups] : n \in 0..2}

\* select(SampleTag.sample_id).where(tag_id.in_(tag_uuids))
\*     .group_by(sample_id).having(count(tag_id) == len(tag_uuids))
having_all_counted(d, tags, tag_uuids) ==
    {sid \in SampleIds(d) :
        /\ tags_of(tags, sid) \cap elements(tag_uuids) # {}
        /\ Cardinality(tags_of(tags, sid) \cap elements(tag_uuids))
               = Len(tag_uuids)}

\* the groups that contribute a condition: the non-empty ones
or_conditions(tag_groups) ==
    {i \in DOMAIN tag_groups : tag_groups[i] # <<>>}

\* read_samples(status=None, tag_filter=...): the ids of the rows the query
\* selects, before sorting and paging
read_samples(d, tags, user, tag_filter) ==
    LET base == {sid \in SampleIds(d) :
                    /\ d.samples[sid].owner = user
                    /\ d.samples[sid].status = "active"}
        conditions == or_conditions(tag_filter)
        invalid == \E i \in conditions : BadId \in elements(tag_filter[i])
    IN  IF tag_filter = <<>> \/ invalid \/ conditions = {}
        THEN base
        ELSE {sid \in base :
                 \E i \in conditions :
                     sid \in having_all_counted(d, tags, tag_filter[i])}

\* a catalog with tags on its samples
InitTags ==
    /\ samples \in Catalogs
    /\ annotations = {}
    /\ history = EmptyBag
    /\ issued = 0
    /\ last = NoRequest
    /\ trace = <<>>
    /\ sample_tags \in SUBSET ((DOMAIN samples) \X TagIds)
    /\ candidates = <<>>
    /\ call = NoCall
    /\ NoTables

ReadSamples ==
    /\ call = NoCall
    /\ \E tag_filter \in TagFilters :
          call' = [op |-> "read_samples", tag_filter |-> tag_filter,
                   ret |-> read_samples(Db, sample_tags, current_user,
                                        tag_filter)]
    /\ UNCHANGED <<catalog_vars, sample_tags, candidates, table_vars>>

NextListing == ReadSamples

SpecListing == InitTags /\ [][NextListing]_vars

\* ------------------------------------------------------------------------
\* C17: in the sample listing, for every tag_filter given as a list of
\* tag-id groups and every assignment of tags to samples, a sample passes
\* the tag filter if and only if there is at least one group all of whose
\* tag ids the sample has.  The statement is checked for the filters that
\* have at least one group, no empty group and only well-formed ids.
\* ------------------------------------------------------------------------
C17_ListingIsDNF ==
    (/\ call.op = "read_samples"
     /\ call.tag_filter # <<>>
     /\ \A i \in DOMAIN call.tag_filter :
            /\ call.tag_filter[i] # <<>>
            /\ BadId \notin elements(call.tag_filter[i]))
    => \A sid \in SampleIds(Db) :
           (/\ samples[sid].owner = current_user
            /\ samples[sid].status = "active")
           => (sid \in call.ret
                 <=> \E i \in DOMAIN call.tag_filter :
                        elements(call.tag_filter[i])
                            \subseteq tags_of(sample_tags, sid))

\* ------------------------------------------------------------------------
\* build_sample_filter_query and the filter preview
\* ------------------------------------------------------------------------
\* the attributes FilterParams declares (app/models.py); of them the model
\* carries the tag fields and annotation_status, the others are None
FilterParamsFields ==
    {"tag_filter", "tags_include", "tags_exclude", "annotation_status"}
\* the attributes build_sample_filter_query reads and FilterParams lacks
UndeclaredFields == {"minio_instance_id", "bucket", "prefix"}

\* the tag_filter of a FilterParams: None and [] are the empty list
DatasetTagFilters == {<<>>, << <<"t1">> >>, << <<"t1", "t2">> >>}

\* FilterParams(...): a value with the declared attributes
FilterParams(tag_filter, tags_include, tags_exclude, annotation_status) ==
    [tag_filter |-> tag_filter, tags_include |-> tags_include,
     tags_exclude |-> tags_exclude, annotation_status |-> annotation_status]

\* an object that carries, besides the attributes of FilterParams, the three
\* attributes the query builder reads (set to None)
with_undeclared(filters) ==
    [a \in FilterParamsFields \cup UndeclaredFields |->
        IF a \in FilterParamsFields THEN filters[a] ELSE NULL]

\* the values handed to build_sample_filter_query: FilterParams values as
\* the routes receive them, and objects that also carry the attributes the
\* function reads
FilterObjects ==
    LET declared == {FilterParams(f, i, e, st) :
                        f \in DatasetTagFilters, i \in TagLists,
                        e \in TagLists, st \in {NULL, "linked"}}
    IN  declared \cup {with_undeclared(p) : p \in declared}

\* the statement select(Sample).where(...): its clauses
Select(inst, bucket, prefix, annotation_status, join_tag_in, notin_tags) ==
    [status |-> "active", inst |-> inst, bucket |-> bucket,
     prefix |-> prefix, annotation_status |-> annotation_status,
     join_tag_in |-> join_tag_in, notin_tags |-> notin_tags]

\* a clause that was not added
NoClause == <<>>

\* build_sample_filter_query(filters): the statement, or the AttributeError
\* of reading an attribute the object lacks.  tag_filter is not read.
build_sample_filter_query(filters) ==
    IF ~ (UndeclaredFields \subseteq DOMAIN filters)
    THEN [raised |-> "AttributeError"]
    ELSE [raised |-> "",
          query |-> Select(filters.minio_instance_id, filters.bucket,
                           filters.prefix, filters.annotation_status,
                           filters.tags_include, filters.tags_exclude)]

\* session.exec(query).all(): the rows of the statement, as a bag of sample
\* ids.  The join with sample_tag yields one row per matching tag row.
exec(d, tags, query) ==
    LET passes(sid) ==
            /\ d.samples[sid].status = query.status
            /\ query.inst = NULL \/ d.samples[sid].inst = query.inst
            /\ query.bucket = NULL \/ d.samples[sid].bucket = query.bucket
            /\ query.prefix = NULL
                   \/ d.samples[sid].object_key[1] = query.prefix
            /\ query.annotation_status = NULL
                   \/ d.samples[sid].annotation_status
                          = query.annotation_status
            /\ tags_of(tags, sid) \cap elements(query.notin_tags) = {}
        copies(sid) ==
            IF query.join_tag_in = NoClause THEN 1
            ELSE Cardinality(tags_of(tags, sid)
                                 \cap elements(query.join_tag_in))
        rows == {sid \in SampleIds(d) : passes(sid) /\ copies(sid) > 0}
    IN  [sid \in rows |-> copies(sid)]

\* filter_preview(filters): the response, its samples as a bag of ids
filter_preview(d, tags, filters) ==
    LET built == build_sample_filter_query(filters)
    IN  IF built.raised # ""
        THEN [raised |-> built.raised, count |-> 0, samples |-> EmptyBag]
        ELSE LET rows == exec(d, tags, built.query)
             IN  [raised |-> "", count |-> BagCardinality(rows),
                  samples |-> rows]

FilterPreview ==
    /\ call = NoCall
    /\ \E filters \in FilterObjects :
          call' = [op |-> "filter_preview", filters |-> filters,
                   ret |-> filter_preview(Db, sample_tags, filters)]
    /\ UNCHANGED <<catalog_vars, sample_tags, candidates, table_vars>>

NextFilter == FilterPreview

SpecFilter == InitTags /\ [][NextFilter]_vars

\* a sample has all tags of at least one group
satisfies_dnf(tags, sid, tag_filter) ==
    \E i \in DOMAIN tag_filter :
        elements(tag_filter[i]) \subseteq tags_of(tags, sid)

\* ------------------------------------------------------------------------
\* C18: the query build_sample_filter_query builds from a FilterParams with
\* a non-empty tag_filter returns only samples that satisfy the DNF tag
\* filter (all tags of at least one group): a query is built, and the
\* filter preview holds no sample that fails tag_filter.
\* ------------------------------------------------------------------------
C18_QueryAppliesTagFilter ==
    (call.op = "filter_preview" /\ call.filters.tag_filter # <<>>)
    => /\ call.ret.raised = ""
       /\ \A sid \in BagToSet(call.ret.samples) :
              satisfies_dnf(sample_tags, sid, call.filters.tag_filter)

\* ------------------------------------------------------------------------
\* C19: the query built by build_sample_filter_query returns a sample only
\* if it has every tag listed in tags_include and none of the tags listed
\* in tags_exclude.
\* ------------------------------------------------------------------------
C19_IncludeAllExcludeAny ==
    call.op = "filter_preview"
    => \A sid \in BagToSet(call.ret.samples) :
          /\ elements(call.filters.tags_include)
                 \subseteq tags_of(sample_tags, sid)
          /\ elements(call.filters.tags_exclude)
                 \cap tags_of(sample_tags, sid) = {}

\* ========================================================================
\* Part 2: tagging rules (app/services/auto_tagging_service.py)
\* ========================================================================
\* the patterns of the rules, by the paths re.search finds them in:
\* "" is found in every path, "/a/" and "/b/" in the paths of one directory
Patterns == {"", "/a/", "/b/"}
\* the owners of rules: the owner of the catalog, and a user without samples
RuleOwners == {"u1", "u2"}

\* a fixed TaggingRule
FixedRule(pattern, tag_ids, owner) ==
    [rule_type |-> "fixed", pattern |-> pattern, tag_ids |-> tag_ids,
     owner_id |-> owner]
FixedRules ==
    {FixedRule(p, t, o) : p \in Patterns, t \in TagLists, o \in RuleOwners}

\* matches_rule(sample, rule): re.search(rule.pattern, bucket/object_key)
matches_rule(sample, rule) ==
    \/ rule.pattern = ""
    \/ rule.pattern = "/a/" /\ sample.object_key[1] = "a"
    \/ rule.pattern = "/b/" /\ sample.object_key[1] = "b"

\* the statistics a rule execution counts, and the sample_tag table
Stats(tags, matched, tagged, skipped) ==
    [tags |-> tags, matched |-> matched, tagged |-> tagged,
     skipped |-> skipped]

\* _apply_tag_to_sample that adds without looking for the row
apply_tag_unchecked(tags, sample_id, tag_id) ==
    [tags |-> tags \cup {SampleTag(sample_id, tag_id)}, applied |-> TRUE]

\* _apply_tag_to_sample(session, sample_id, tag_id): the table after it and
\* whether the tag was applied.  The session flushes the added row before
\* the next query, so a row added earlier in the run is found.
apply_tag_to_sample(tags, sample_id, tag_id) ==
    IF SampleTag(sample_id, tag_id) \in tags
    THEN [tags |-> tags, applied |-> FALSE]
    ELSE [tags |-> tags \cup {SampleTag(sample_id, tag_id)},
          applied |-> TRUE]

\* for tag_id in rule.tag_ids: apply, count tagged or skipped
RECURSIVE apply_tag_ids(_, _, _)
apply_tag_ids(st, sample_id, tag_ids) ==
    IF tag_ids = <<>> THEN st
    ELSE LET r == apply_tag_to_sample(st.tags, sample_id, Head(tag_ids))
             next == IF r.applied
                     THEN [st EXCEPT !.tags = r.tags, !.tagged = @ + 1]
                     ELSE [st EXCEPT !.skipped = @ + 1]
         IN  apply_tag_ids(next, sample_id, Tail(tag_ids))

\* for sample in samples: the loop of _execute_fixed_rule, over the rows
\* sid..Len(samples) of the table
RECURSIVE fixed_rule_loop(_, _, _, _, _)
fixed_rule_loop(d, st, rule, dry_run, sid) ==
    IF sid > Len(d.samples) THEN st
    ELSE LET sample == d.samples[sid]
             selected == sample.owner = rule.owner_id
             next == IF selected /\ matches_rule(sample, rule)
                     THEN LET m == [st EXCEPT !.matched = @ + 1]
                          IN  IF dry_run THEN m
                              ELSE apply_tag_ids(m, sid, rule.tag_ids)
                     ELSE st
         IN  fixed_rule_loop(d, next, rule, dry_run, sid + 1)

\* _execute_fixed_rule(session, rule, dry_run)
execute_fixed_rule(d, tags, rule, dry_run) ==
    fixed_rule_loop(d, Stats(tags, 0, 0, 0), rule, dry_run, 1)

\* execute_rule on a fixed rule; the call remembers whether it repeats the
\* call before it
ExecuteFixedRule ==
    /\ \E rule \in FixedRules, dry_run \in BOOLEAN :
          LET r == execute_fixed_rule(Db, sample_tags, rule, dry_run)
          IN  /\ sample_tags' = r.tags
              /\ call' = [op |-> "execute_rule", rule |-> rule,
                          dry_run |-> dry_run,
                          again |-> /\ call.op = "execute_rule"
                                    /\ call.rule = rule
                                    /\ ~ call.dry_run
                                    /\ ~ dry_run,
                          ret |-> [matched |-> r.matched,
                                   tagged |-> r.tagged,
                                   skipped |-> r.skipped,
                                   no_annotation |-> 0]]
    /\ UNCHANGED <<catalog_vars, candidates, table_vars>>

NextTagging == ExecuteFixedRule

SpecTagging == InitTags /\ [][NextTagging]_vars

\* ------------------------------------------------------------------------
\* C20: executing the same fixed tagging rule with dry_run = false twice in
\* a row against an unchanged sample set, the second run adds no SampleTag
\* row and reports tagged = 0 and skipped = matched x (number of tag ids of
\* the rule).
\* ------------------------------------------------------------------------
C20_SecondRunOnlySkips ==
    [][(/\ call.op = "execute_rule"
        /\ call'.op = "execute_rule"
        /\ ~ call.dry_run
        /\ ~ call'.dry_run
        /\ call'.rule = call.rule)
       => /\ sample_tags' = sample_tags
          /\ call'.ret.tagged = 0
          /\ call'.ret.skipped
                 = call'.ret.matched * Len(call'.rule.tag_ids)]_vars

\* a rule that tagged samples was executed again and skipped every tag
C20_ExecutedTwice ==
    /\ call.op = "execute_rule"
    /\ call.again
    /\ call.ret.matched > 0
    /\ Len(call.rule.tag_ids) = 2
    /\ call.ret.tagged = 0
    /\ call.ret.skipped = call.ret.matched * 2

\* ------------------------------------------------------------------------
\* mapping rules
\* ------------------------------------------------------------------------
\* a well-formed id that no row of the tag table has
MissingTag == "t0"
\* the parsed annotations of the catalogs the rules run on
RuleBodies == {"h0", "h1", "h2"}

\* annotation.class_counts of a parsed annotation file: the classes of its
\* objects with their numbers; "h0" is a file without objects
class_counts(parsed) ==
    CASE parsed = "h1" -> [c \in {"person"} |-> 2]
      [] parsed = "h2" -> [c \in {"car", "person"} |-> 1]
      [] OTHER -> [c \in {} |-> 0]

\* rule.class_tag_mapping: class name -> tag id as text
ClassTagMappings ==
    UNION {[D -> TagIds \cup {MissingTag, BadId}] : D \in SUBSET Classes}

\* a mapping rule: an object with the attributes _execute_mapping_rule reads
MappingRule(pattern, class_tag_mapping, owner) ==
    [rule_type |-> "mapping", pattern |-> pattern, tag_ids |-> <<>>,
     class_tag_mapping |-> class_tag_mapping, owner_id |-> owner]
MappingRules ==
    {MappingRule(p, m, o) :
        p \in {"", "/a/"}, m \in ClassTagMappings, o \in RuleOwners}

\* session.get(Tag, tag_id) that finds a row for every id
tag_exists_always(tag_id) == TRUE

\* session.get(Tag, tag_id)
tag_exists(tag_id) == tag_id \in TagIds

\* for class_name in annotation.class_counts.keys(): look the tag up and,
\* outside a dry run, apply it
RECURSIVE apply_class_tags(_, _, _, _, _)
apply_class_tags(st, sample_id, class_names, rule, dry_run) ==
    IF class_names = {} THEN st
    ELSE LET class_name == CHOOSE c \in class_names : TRUE
             mapped == class_name \in DOMAIN rule.class_tag_mapping
             tag_id == rule.class_tag_mapping[class_name]
             next ==
                 IF mapped /\ ~ dry_run /\ tag_id # BadId /\ tag_exists(tag_id)
                 THEN LET r == apply_tag_to_sample(st.tags, sample_id, tag_id)
                      IN  IF r.applied
                          THEN [st EXCEPT !.tags = r.tags, !.tagged = @ + 1]
                          ELSE [st EXCEPT !.skipped = @ + 1]
                 ELSE st
         IN  apply_class_tags(next, sample_id, class_names \ {class_name},
                              rule, dry_run)

\* the statistics of a mapping rule
MappingStats(tags, matched, tagged, skipped, no_annotation) ==
    [tags |-> tags, matched |-> matched, tagged |-> tagged,
     skipped |-> skipped, no_annotation |-> no_annotation]

\* for sample in samples: the loop of _execute_mapping_rule
RECURSIVE mapping_rule_loop(_, _, _, _, _)
mapping_rule_loop(d, st, rule, dry_run, sid) ==
    IF sid > Len(d.samples) THEN st
    ELSE LET sample == d.samples[sid]
             selected == /\ sample.owner = rule.owner_id
                         /\ sample.annotation_status = "linked"
             rows == AnnotationsOf(d, sid)
             annotation == CHOOSE a \in rows : TRUE
             m == [st EXCEPT !.matched = @ + 1]
             next ==
                 IF ~ (selected /\ matches_rule(sample, rule)) THEN st
                 ELSE IF rows = {}
                 THEN [m EXCEPT !.no_annotation = @ + 1]
                 ELSE IF DOMAIN class_counts(annotation.parsed) = {}
                 THEN [m EXCEPT !.no_annotation = @ + 1]
                 ELSE apply_class_tags(m, sid,
                          DOMAIN class_counts(annotation.parsed),
                          rule, dry_run)
         IN  mapping_rule_loop(d, next, rule, dry_run, sid + 1)

\* _execute_mapping_rule(session, rule, dry_run)
execute_mapping_rule(d, tags, rule, dry_run) ==
    IF DOMAIN rule.class_tag_mapping = {}
    THEN MappingStats(tags, 0, 0, 0, 0)
    ELSE mapping_rule_loop(d, MappingStats(tags, 0, 0, 0, 0), rule,
                           dry_run, 1)

\* execute_rule(session, rule, dry_run): the table after it and the counts
execute_rule(d, tags, rule, dry_run) ==
    IF rule.rule_type = "mapping"
    THEN execute_mapping_rule(d, tags, rule, dry_run)
    ELSE LET r == execute_fixed_rule(d, tags, rule, dry_run)
         IN  MappingStats(r.tags, r.matched, r.tagged, r.skipped, 0)

\* the counts of a result
counts(r) ==
    [matched |-> r.matched, tagged |-> r.tagged, skipped |-> r.skipped,
     no_annotation |-> r.no_annotation]

\* the catalogs with annotations: to each sample of a catalog of active rows,
\* no annotation or a linked one, as link_annotation leaves it
RECURSIVE linked_catalog(_, _, _)
linked_catalog(d, bodies, sid) ==
    IF sid > Len(d.samples) THEN d
    ELSE linked_catalog(
             IF bodies[sid] = "none" THEN d
             ELSE link_annotation(d, sid,
                      <<d.samples[sid].object_key[1],
                        d.samples[sid].file_stem, "xml">>,
                      bodies[sid], parse_voc_xml(bodies[sid])),
             bodies, sid + 1)

AnnotatedCatalogs ==
    UNION {{linked_catalog([samples |-> c, annotations |-> {},
                            history |-> EmptyBag, issued |-> 0], b, 1) :
               b \in [DOMAIN c -> RuleBodies \cup {"none"}]} :
           c \in {k \in Catalogs :
                     \A i \in DOMAIN k : k[i].status = "active"}}

InitRules ==
    /\ \E d \in AnnotatedCatalogs :
          /\ samples = d.samples
          /\ annotations = d.annotations
          /\ history = d.history
          /\ issued = d.issued
    /\ last = NoRequest
    /\ trace = <<>>
    /\ sample_tags \in SUBSET ((DOMAIN samples) \X TagIds)
    /\ candidates = <<>>
    /\ call = NoCall
    /\ NoTables

\* execute_rule on a rule of either type, once in a behaviour; the call
\* keeps the sample_tag table it started from
ExecuteRule ==
    /\ call = NoCall
    /\ \E rule \in FixedRules \cup MappingRules, dry_run \in BOOLEAN :
          LET r == execute_rule(Db, sample_tags, rule, dry_run)
          IN  /\ sample_tags' = r.tags
              /\ call' = [op |-> "execute_rule", rule |-> rule,
                          dry_run |-> dry_run, again |-> FALSE,
                          before |-> sample_tags, ret |-> counts(r)]
    /\ UNCHANGED <<catalog_vars, candidates, table_vars>>

NextRules == ExecuteRule

SpecRules == InitRules /\ [][NextRules]_vars

\* ------------------------------------------------------------------------
\* C21: from any state, execute_rule with dry_run = true reports the same
\* matched, tagged, skipped and no_annotation counts that execute_rule with
\* dry_run = false would report from that state, and itself creates no
\* SampleTag row.
\* ------------------------------------------------------------------------
C21_DryRunReportsTheSame ==
    (call.op = "execute_rule" /\ call.dry_run)
    => /\ sample_tags = call.before
       /\ call.ret = counts(execute_rule(Db, call.before, call.rule, FALSE))

\* the pairs a mapping rule is to add: the owner's linked samples that match
\* the pattern, with the existing tags their annotation's classes map to
MappedPairs(rule) ==
    {pair \in (DOMAIN samples) \X TagIds :
        /\ samples[pair[1]].owner = rule.owner_id
        /\ samples[pair[1]].annotation_status = "linked"
        /\ matches_rule(samples[pair[1]], rule)
        /\ \E a \in AnnotationsOf(Db, pair[1]) :
              \E c \in DOMAIN class_counts(a.parsed) :
                  /\ c \in DOMAIN rule.class_tag_mapping
                  /\ rule.class_tag_mapping[c] = pair[2]}

\* ------------------------------------------------------------------------
\* C22: executing a mapping rule with dry_run = false adds exactly the
\* SampleTag pairs (s, class_tag_mapping[c]) for the rule owner's samples s
\* that are linked, match the pattern and whose annotation class_counts
\* contain a class c mapped to an existing tag; each pair is added once
\* whatever the object count of c, and samples that are not linked receive
\* no tag.
\* ------------------------------------------------------------------------
C22_MappingAddsMappedPairs ==
    (/\ call.op = "execute_rule"
     /\ call.rule.rule_type = "mapping"
     /\ ~ call.dry_run)
    => /\ sample_tags = call.before \cup MappedPairs(call.rule)
       /\ call.ret.tagged
              = Cardinality(MappedPairs(call.rule) \ call.before)
       /\ \A pair \in sample_tags \ call.before :
              samples[pair[1]].annotation_status = "linked"

\* a sample with two objects of one class received the one tag of the class
C22_OnePairForTwoObjects ==
    /\ call.op = "execute_rule"
    /\ call.rule.rule_type = "mapping"
    /\ ~ call.dry_run
    /\ \E sid \in DOMAIN samples :
          /\ \E a \in AnnotationsOf(Db, sid) :
                class_counts(a.parsed) = [c \in {"person"} |-> 2]
          /\ DOMAIN call.rule.class_tag_mapping = {"person"}
          /\ call.rule.class_tag_mapping["person"] = "t1"
          /\ SampleTag(sid, "t1") \in sample_tags \ call.before
    /\ call.ret.tagged = 1
    /\ call.ret.no_annotation = 0

\* ------------------------------------------------------------------------
\* auto-execute rules
\* ------------------------------------------------------------------------
\* the tagging_rule table of the webhook runs: rules of the owner of the
\* instances, one active and flagged auto_execute for every path, one
\* flagged but inactive
tagging_rules ==
    {FixedRule("", <<"t1">>, "u1")
         @@ [is_active |-> TRUE, auto_execute |-> TRUE],
     FixedRule("/a/", <<"t2">>, "u1")
         @@ [is_active |-> FALSE, auto_execute |-> TRUE]}

\* for rule in rules: the loop of apply_auto_rules_to_sample
RECURSIVE auto_rules_loop(_, _, _, _)
auto_rules_loop(st, sample, sid, rules) ==
    IF rules = {} THEN st
    ELSE LET rule == CHOOSE r \in rules : TRUE
             next == IF matches_rule(sample, rule)
                     THEN LET r == apply_tag_ids(
                                       Stats(st.tags, 0, 0, 0), sid,
                                       rule.tag_ids)
                          IN  [tags |-> r.tags,
                               rules_matched |-> st.rules_matched + 1,
                               tags_applied |-> st.tags_applied + r.tagged]
                     ELSE st
         IN  auto_rules_loop(next, sample, sid, rules \ {rule})

\* apply_auto_rules_to_sample(session, sample): the sample_tag table after
\* it and its statistics
apply_auto_rules_to_sample(tags, sample, sid, table) ==
    auto_rules_loop([tags |-> tags, rules_matched |-> 0, tags_applied |-> 0],
                    sample, sid,
                    {r \in table : /\ r.owner_id = sample.owner
                                   /\ r.is_active
                                   /\ r.auto_execute})

\* ------------------------------------------------------------------------
\* C23: whenever a new Sample is created, every active rule of the sample's
\* owner flagged auto_execute whose pattern matches the sample's
\* bucket/object_key path has been applied to that sample once the creation
\* completes, and no other sample's tags are changed by it.
\* ------------------------------------------------------------------------
C23_AutoRulesApplied ==
    [][Len(samples') > Len(samples)
       => sample_tags' =
              apply_auto_rules_to_sample(sample_tags, samples'[Len(samples')],
                                         Len(samples'), tagging_rules).tags
      ]_vars

\* ========================================================================
\* Part 2: the tag tree (app/api/routes/tags.py)
\* ========================================================================
\* rows the tag table may hold, deleted ones included
MaxTags == 3

\* the users that send tag requests
Users == {"u1", "u2"}
\* TagUpdate.parent_id left out of the request body
Unset == -1

\* a Tag row; a deleted row keeps its place so that ids are not used again
Tag(parent_id, owner) ==
    [parent_id |-> parent_id, owner_id |-> owner, deleted |-> FALSE]

\* session.get(Tag, id) finds a row
tag_found(t, id) == id \in DOMAIN t /\ ~ t[id].deleted

\* an HTTP answer and the table after the request
TagAnswer(status, t) == [status |-> status, tag_table |-> t]

\* the parent check shared by create_tag and update_tag: the status it
\* raises, 200 when it passes
check_parent(t, user, parent_id) ==
    IF parent_id = NoId THEN 200
    ELSE IF ~ tag_found(t, parent_id) THEN 404
    ELSE IF t[parent_id].owner_id # NULL /\ t[parent_id].owner_id # user
    THEN 404
    ELSE 200

\* create_tag(session, current_user, tag_in)
create_tag(t, user, category, parent_id) ==
    IF category # "user" THEN TagAnswer(403, t)
    ELSE IF check_parent(t, user, parent_id) # 200
    THEN TagAnswer(check_parent(t, user, parent_id), t)
    ELSE TagAnswer(200, Append(t, Tag(parent_id, user)))

\* update_tag(session, current_user, id, tag_in): parent_id is Unset when
\* the body leaves it out, NoId when the body says null
update_tag(t, user, id, category, parent_id) ==
    IF ~ tag_found(t, id) THEN TagAnswer(404, t)
    ELSE IF t[id].owner_id = NULL THEN TagAnswer(403, t)
    ELSE IF t[id].owner_id # user THEN TagAnswer(403, t)
    ELSE IF category # NULL /\ category # "user" THEN TagAnswer(403, t)
    ELSE IF parent_id # Unset /\ check_parent(t, user, parent_id) # 200
    THEN TagAnswer(check_parent(t, user, parent_id), t)
    ELSE IF parent_id = Unset THEN TagAnswer(200, t)
    ELSE TagAnswer(200, [t EXCEPT ![id].parent_id = parent_id])

\* delete_tag(session, current_user, id): session.delete(tag) sets the
\* parent_id of the children to None before the row goes
delete_tag(t, user, id) ==
    IF ~ tag_found(t, id) THEN TagAnswer(404, t)
    ELSE IF t[id].owner_id = NULL THEN TagAnswer(403, t)
    ELSE IF t[id].owner_id # user THEN TagAnswer(403, t)
    ELSE TagAnswer(200,
             [i \in DOMAIN t |->
                 IF i = id THEN [t[i] EXCEPT !.deleted = TRUE]
                 ELSE IF t[i].parent_id = id /\ ~ t[i].deleted
                 THEN [t[i] EXCEPT !.parent_id = NoId]
                 ELSE t[i]])

\* the tag table holds a global tag, created at start-up
InitTagTree ==
    /\ samples = <<>>
    /\ annotations = {}
    /\ history = EmptyBag
    /\ issued = 0
    /\ last = NoRequest
    /\ trace = <<>>
    /\ sample_tags = {}
    /\ candidates = <<>>
    /\ call = NoCall
    /\ tag_table = <<Tag(NoId, NULL)>>
    /\ datasets = <<>>
    /\ dataset_samples = {}

\* the ids a request may name: those issued, and one that was never issued
RequestIds == 1..(MaxTags + 1)

Answered(op, user, r) ==
    /\ Len(r.tag_table) <= MaxTags
    /\ tag_table' = r.tag_table
    /\ call' = [op |-> op, user |-> user, status |-> r.status]
    /\ UNCHANGED <<catalog_vars, sample_tags, candidates, datasets,
                   dataset_samples>>

CreateTag ==
    \E user \in Users, category \in {"user", "business"},
       parent_id \in RequestIds \cup {NoId} :
        Answered("create_tag", user,
                 create_tag(tag_table, user, category, parent_id))

UpdateTag ==
    \E user \in Users, id \in RequestIds, category \in {NULL, "user", "system"},
       parent_id \in RequestIds \cup {NoId, Unset} :
        Answered("update_tag", user,
                 update_tag(tag_table, user, id, category, parent_id))

DeleteTag ==
    \E user \in Users, id \in RequestIds :
        Answered("delete_tag", user, delete_tag(tag_table, user, id))

NextTagTree ==
    \/ CreateTag
    \/ UpdateTag
    \/ DeleteTag

SpecTagTree == InitTagTree /\ [][NextTagTree]_vars

\* the tag reached from id by following parent_id n times, NoId past a root
RECURSIVE ancestor(_, _, _)
ancestor(t, id, n) ==
    IF id = NoId \/ n = 0 THEN id
    ELSE ancestor(t, t[id].parent_id, n - 1)

\* ------------------------------------------------------------------------
\* C24: after any sequence of tag create, update and delete requests the
\* tag parent relation is acyclic: following parent_id from any tag reaches
\* a root, and no tag is its own ancestor or its own parent.
\* ------------------------------------------------------------------------
C24_TagTreeAcyclic ==
    \A id \in DOMAIN tag_table :
        ~ tag_table[id].deleted
        => /\ tag_table[id].parent_id # id
           /\ ancestor(tag_table, id, Len(tag_table)) = NoId

\* ========================================================================
\* Part 2: datasets (app/api/routes/datasets.py)
\* ========================================================================
\* rows the dataset table may hold
MaxDatasets == 1

\* a Dataset row
Dataset(owner, sample_count) == [owner_id |-> owner, sample_count |-> sample_count]
\* a DatasetSample row; (dataset_id, sample_id) is the primary key
DatasetSample(dataset_id, sample_id) == <<dataset_id, sample_id>>

\* the tables the dataset routes write
DatasetTables(ds, rows) == [datasets |-> ds, dataset_samples |-> rows]

\* the answer of a dataset route: the status, the number it reports and the
\* tables after the request.  A request that raises is rolled back.
DatasetAnswer(status, n, tables) ==
    [status |-> status, n |-> n, tables |-> tables]

\* the sample ids of a dataset
samples_of(rows, dataset_id) == {r[2] : r \in {x \in rows : x[1] = dataset_id}}

\* the filters of the build requests: tags_include alone, in a FilterParams
\* and in an object with the attributes the query builder reads
DatasetFilters ==
    LET declared == {FilterParams(<<>>, i, <<>>, NULL) :
                        i \in {<<>>, <<"t1">>, <<"t1", "t2">>}}
    IN  {FilterParams(<<>>, <<>>, <<>>, NULL)}
            \cup {with_undeclared(p) : p \in declared}

\* SamplingConfig
SamplingConfig(mode, count, class_targets) ==
    [mode |-> mode, count |-> count, class_targets |-> class_targets]
SamplingConfigs ==
    {SamplingConfig("all", 0, <<>>),
     SamplingConfig("random", 1, <<>>),
     SamplingConfig("random", -1, <<>>),
     SamplingConfig("class_targets", 0, [c \in {"person"} |-> 2])}

\* the rows of a result in the orders the database may return them
Orderings(rows) ==
    LET n == BagCardinality(rows)
    IN  {q \in [1..n -> DOMAIN rows] :
            \A sid \in DOMAIN rows :
                Cardinality({i \in 1..n : q[i] = sid}) = rows[sid]}

\* a Sample as the sampling service sees it: its class counts are those of
\* its annotation
candidate(d, sid) ==
    LET rows == AnnotationsOf(d, sid)
        cc == IF rows = {} THEN class_counts("none")
              ELSE class_counts((CHOOSE a \in rows : TRUE).parsed)
    IN  [id |-> sid,
         class_counts |-> [c \in Classes |->
                              IF c \in DOMAIN cc THEN cc[c] ELSE 0]]

\* _apply_sampling(candidates, config): the results it can return
apply_sampling(cands, config) ==
    IF config.mode = "all"
    THEN {[raised |-> "", value |-> cands]}
    ELSE IF config.mode = "random"
    THEN random_sample(cands, config.count)
    ELSE {[raised |-> "",
           value |-> sample_by_class_targets(cands, config.class_targets)
                         .selected_samples]}

\* adding the selected samples and committing: two rows of one key, or a row
\* that exists, violate the primary key
add_selected(tables, dataset_id, selected) ==
    LET ids == {selected[i].id : i \in DOMAIN selected}
    IN  IF \/ Cardinality(ids) # Len(selected)
           \/ ids \cap samples_of(tables.dataset_samples, dataset_id) # {}
        THEN [raised |-> "IntegrityError", rows |-> tables.dataset_samples]
        ELSE [raised |-> "",
              rows |-> tables.dataset_samples
                           \cup {DatasetSample(dataset_id, s) : s \in ids}]

\* build_new_dataset(request): the answers it can give
build_new_dataset(d, tags, tables, user, filters, config) ==
    LET built == build_sample_filter_query(filters)
        dataset_id == Len(tables.datasets) + 1
    IN  IF built.raised # "" THEN {DatasetAnswer(500, 0, tables)}
        ELSE {LET added == add_selected(tables, dataset_id, result.value)
              IN  IF result.raised # "" \/ added.raised # ""
                  THEN DatasetAnswer(500, 0, tables)
                  ELSE DatasetAnswer(200, Len(result.value),
                           DatasetTables(
                               Append(tables.datasets,
                                      Dataset(user, Len(result.value))),
                               added.rows)) :
                 result \in UNION {apply_sampling(
                                       [i \in DOMAIN q |-> candidate(d, q[i])],
                                       config) :
                                   q \in Orderings(exec(d, tags, built.query))}}

\* add_filtered_samples_to_dataset(dataset_id, request)
add_filtered_samples_to_dataset(d, tags, tables, user, dataset_id, filters, config) ==
    IF dataset_id \notin DOMAIN tables.datasets
    THEN {DatasetAnswer(404, 0, tables)}
    ELSE IF tables.datasets[dataset_id].owner_id # user
    THEN {DatasetAnswer(403, 0, tables)}
    ELSE
    LET built == build_sample_filter_query(filters)
        existing_ids == samples_of(tables.dataset_samples, dataset_id)
    IN  IF built.raised # "" THEN {DatasetAnswer(500, 0, tables)}
        ELSE {LET added == add_selected(tables, dataset_id, result.value)
              IN  IF result.raised # "" \/ added.raised # ""
                  THEN DatasetAnswer(500, 0, tables)
                  ELSE DatasetAnswer(200, Len(result.value),
                           DatasetTables(
                               [tables.datasets EXCEPT
                                   ![dataset_id].sample_count =
                                       @ + Len(result.value)],
                               added.rows)) :
                 result \in UNION {apply_sampling(
                                       SelectSeq(
                                           [i \in DOMAIN q |->
                                               candidate(d, q[i])],
                                           LAMBDA s : s.id \notin existing_ids),
                                       config) :
                                   q \in Orderings(exec(d, tags, built.query))}}

\* create_dataset(dataset_in)
create_dataset(tables, user) ==
    DatasetAnswer(200, 0,
        [tables EXCEPT !.datasets = Append(@, Dataset(user, 0))])

\* the loop of add_samples_to_dataset that counts a row it does not add
RECURSIVE add_each_counting_all(_, _, _, _, _)
add_each_counting_all(d, rows, user, id, sample_ids) ==
    IF sample_ids = <<>> THEN [rows |-> rows, added |-> 0]
    ELSE LET sample_id == Head(sample_ids)
             rest == add_each_counting_all(d,
                         rows \cup {DatasetSample(id, sample_id)}, user, id,
                         Tail(sample_ids))
         IN  IF sample_id \notin SampleIds(d)
             THEN add_each_counting_all(d, rows, user, id, Tail(sample_ids))
             ELSE IF d.samples[sample_id].owner # user
             THEN add_each_counting_all(d, rows, user, id, Tail(sample_ids))
             ELSE [rest EXCEPT !.added = @ + 1]

\* for sample_id in request.sample_ids: the loop of add_samples_to_dataset.
\* The session flushes an added row before the next query.
RECURSIVE add_each(_, _, _, _, _)
add_each(d, rows, user, id, sample_ids) ==
    IF sample_ids = <<>> THEN [rows |-> rows, added |-> 0]
    ELSE LET sample_id == Head(sample_ids)
             skip == add_each(d, rows, user, id, Tail(sample_ids))
             rest == add_each(d, rows \cup {DatasetSample(id, sample_id)},
                              user, id, Tail(sample_ids))
         IN  IF sample_id \notin SampleIds(d) THEN skip
             ELSE IF d.samples[sample_id].owner # user THEN skip
             ELSE IF DatasetSample(id, sample_id) \in rows THEN skip
             ELSE [rest EXCEPT !.added = @ + 1]

\* add_samples_to_dataset(id, request)
add_samples_to_dataset(d, tables, user, id, sample_ids) ==
    IF id \notin DOMAIN tables.datasets THEN DatasetAnswer(404, 0, tables)
    ELSE IF tables.datasets[id].owner_id # user
    THEN DatasetAnswer(403, 0, tables)
    ELSE LET r == add_each(d, tables.dataset_samples, user, id, sample_ids)
         IN  DatasetAnswer(200, r.added,
                 DatasetTables([tables.datasets EXCEPT
                                   ![id].sample_count = @ + r.added],
                               r.rows))

\* for sample_id in request.sample_ids: the loop of
\* remove_samples_from_dataset
RECURSIVE remove_each(_, _, _)
remove_each(rows, id, sample_ids) ==
    IF sample_ids = <<>> THEN [rows |-> rows, removed |-> 0]
    ELSE LET sample_id == Head(sample_ids)
             rest == remove_each(rows \ {DatasetSample(id, sample_id)}, id,
                                 Tail(sample_ids))
         IN  IF DatasetSample(id, sample_id) \in rows
             THEN [rest EXCEPT !.removed = @ + 1]
             ELSE rest

\* remove_samples_from_dataset(id, request)
remove_samples_from_dataset(tables, user, id, sample_ids) ==
    IF id \notin DOMAIN tables.datasets THEN DatasetAnswer(404, 0, tables)
    ELSE IF tables.datasets[id].owner_id # user
    THEN DatasetAnswer(403, 0, tables)
    ELSE LET r == remove_each(tables.dataset_samples, id, sample_ids)
         IN  DatasetAnswer(200, r.removed,
                 DatasetTables([tables.datasets EXCEPT
                                   ![id].sample_count =
                                       Max(0, @ - r.removed)],
                               r.rows))

\* build_dataset(id, request) with request.tag_ids, the other conditions
\* left out of the request: the query joins sample_tag, and the loop adds
\* the samples the dataset does not hold
build_dataset(d, tags, tables, user, id, tag_ids) ==
    IF id \notin DOMAIN tables.datasets THEN DatasetAnswer(404, 0, tables)
    ELSE IF tables.datasets[id].owner_id # user
    THEN DatasetAnswer(403, 0, tables)
    ELSE LET found == {sid \in SampleIds(d) :
                          /\ d.samples[sid].owner = user
                          /\ d.samples[sid].status = "active"
                          /\ tag_ids = <<>>
                                \/ tags_of(tags, sid) \cap elements(tag_ids)
                                       # {}}
             new == found \ samples_of(tables.dataset_samples, id)
         IN  DatasetAnswer(200, Cardinality(new),
                 DatasetTables([tables.datasets EXCEPT
                                   ![id].sample_count = @ + Cardinality(new)],
                               tables.dataset_samples
                                   \cup {DatasetSample(id, s) : s \in new}))

Tables == DatasetTables(datasets, dataset_samples)

\* a catalog with annotations and no dataset; a sample has every tag or
\* none
InitDatasets ==
    /\ \E d \in {a \in AnnotatedCatalogs :
                    \A x \in a.annotations : x.parsed = "h1"} :
          /\ samples = d.samples
          /\ annotations = d.annotations
          /\ history = d.history
          /\ issued = d.issued
    /\ last = NoRequest
    /\ trace = <<>>
    /\ \E tagged \in SUBSET (DOMAIN samples) :
          sample_tags = tagged \X TagIds
    /\ candidates = <<>>
    /\ call = NoCall
    /\ NoTables

\* the tables take the answer of a dataset route; the call keeps the
\* dataset the request named, how many sample ids it named and how many
\* samples the dataset held before
DatasetAnswered(op, id, asked, r) ==
    /\ Len(r.tables.datasets) <= MaxDatasets
    /\ datasets' = r.tables.datasets
    /\ dataset_samples' = r.tables.dataset_samples
    /\ call' = [op |-> op, id |-> id, asked |-> asked, status |-> r.status,
                n |-> r.n,
                held |-> Cardinality(samples_of(dataset_samples, id))]
    /\ UNCHANGED <<catalog_vars, sample_tags, candidates, tag_table>>

\* the lists of sample ids of a request: an id may come twice, and the
\* last id is no sample's
SampleIdLists ==
    {<<>>, <<1>>, <<2>>, <<1, 1>>, <<1, 2>>, <<2, MaxSamples + 1>>}

CreateDataset ==
    DatasetAnswered("create_dataset", 0, 0, create_dataset(Tables, current_user))

BuildNewDataset ==
    \E filters \in DatasetFilters, config \in SamplingConfigs :
        \E r \in build_new_dataset(Db, sample_tags, Tables, current_user,
                                   filters, config) :
            DatasetAnswered("build_new_dataset", 0, 0, r)

AddFilteredSamplesToDataset ==
    \E id \in 1..MaxDatasets, filters \in DatasetFilters,
       config \in SamplingConfigs :
        \E r \in add_filtered_samples_to_dataset(Db, sample_tags, Tables,
                     current_user, id, filters, config) :
            DatasetAnswered("add_filtered_samples_to_dataset", id, 0, r)

AddSamplesToDataset ==
    \E id \in 1..MaxDatasets, sample_ids \in SampleIdLists :
        DatasetAnswered("add_samples_to_dataset", id, Len(sample_ids),
            add_samples_to_dataset(Db, Tables, current_user, id, sample_ids))

RemoveSamplesFromDataset ==
    \E id \in 1..MaxDatasets, sample_ids \in SampleIdLists :
        DatasetAnswered("remove_samples_from_dataset", id,
            Len(sample_ids),
            remove_samples_from_dataset(Tables, current_user, id,
                                        sample_ids))

BuildDataset ==
    \E id \in 1..MaxDatasets, tag_ids \in {<<>>, <<"t1">>, <<"t1", "t2">>} :
        DatasetAnswered("build_dataset", id, 0,
            build_dataset(Db, sample_tags, Tables, current_user, id, tag_ids))

NextDatasets ==
    \/ CreateDataset
    \/ BuildNewDataset
    \/ AddFilteredSamplesToDataset
    \/ AddSamplesToDataset
    \/ RemoveSamplesFromDataset
    \/ BuildDataset

SpecDatasets == InitDatasets /\ [][NextDatasets]_vars

\* ------------------------------------------------------------------------
\* C25: after any sequence of dataset build, add-samples (by filter and
\* sampling, or by explicit ids) and remove-samples operations, each
\* Dataset's sample_count equals the number of DatasetSample rows of that
\* dataset.
\* ------------------------------------------------------------------------
C25_SampleCountIsCardinality ==
    \A id \in DOMAIN datasets :
        datasets[id].sample_count
            = Cardinality(samples_of(dataset_samples, id))

\* a request that named two sample ids added one row to a dataset that
\* held one: the other id was repeated, held already or no sample's
C25_RepeatedSampleCountedOnce ==
    /\ call.op = "add_samples_to_dataset"
    /\ call.status = 200
    /\ call.asked = 2
    /\ call.n = 1
    /\ call.held = 1
    /\ datasets[call.id].sample_count = 2

\* ========================================================================
\* Part 2: the selection loop of sample_by_class_targets, one iteration
\* at a time (app/services/sampling_service.py)
\* ========================================================================
\* the candidates one request selects from
MaxPool == 3

\* the candidate lists of a request: a candidate's id is its place in the
\* list the caller passed
Pools ==
    UNION {{[i \in 1..n |-> [id |-> i, class_counts |-> cc[i]]] :
                cc \in [1..n -> ClassCounts]} : n \in 0..MaxPool}

\* the class_targets of a request: every class is asked for (a class
\* asked for 0 times is never open and scores nothing).  With these targets
\* and counts the float sums of the code compare as the fractions do.
PoolTargets == [Classes -> 1..3]

\* any(v > 0 for v in remaining.values()) and candidate_list
loop_condition(remaining, candidate_list) ==
    open_classes(remaining) # {} /\ candidate_list # <<>>

\* candidate_list.pop(0)
best_candidate(sorted) == sorted[1]

\* calculate_score(candidate_list[0]) < 1
below_one_target(sorted, remaining) ==
    calculate_score(sorted[1], remaining) < denominator(remaining)

\* calculate_score(candidate_list[0]) == 0
no_more_useful(sorted, remaining) ==
    calculate_score(sorted[1], remaining) = 0

\* the locals of the function once remaining, selected and candidate_list
\* are set; tried keeps the locals the last iteration started from
Locals(class_targets, remaining, selected, candidate_list, tried) ==
    [op |-> "while", class_targets |-> class_targets,
     remaining |-> remaining, selected |-> selected,
     candidate_list |-> candidate_list, tried |-> tried]

InitSelection ==
    /\ samples = <<>>
    /\ annotations = {}
    /\ history = EmptyBag
    /\ issued = 0
    /\ last = NoRequest
    /\ trace = <<>>
    /\ sample_tags = {}
    /\ candidates \in Pools
    /\ \E class_targets \in PoolTargets :
          call = Locals(class_targets, class_targets, <<>>, candidates,
                        [remaining |-> class_targets,
                         candidate_list |-> <<>>])
    /\ NoTables

\* the early return for no candidates
ReturnEarly ==
    /\ call.op = "while"
    /\ candidates = <<>>
    /\ call' = [op |-> "sample_by_class_targets",
                class_targets |-> call.class_targets,
                ret |-> SamplingResult(<<>>,
                            achievement_of_nothing(call.class_targets))]
    /\ UNCHANGED <<catalog_vars, sample_tags, candidates, table_vars>>

\* one iteration that selects: sort, pop the first, update remaining
SelectBest ==
    /\ call.op = "while"
    /\ candidates # <<>>
    /\ loop_condition(call.remaining, call.candidate_list)
    /\ LET sorted == sort_by_score(call.candidate_list, call.remaining)
           best == best_candidate(sorted)
       IN  /\ ~ no_more_useful(sorted, call.remaining)
           /\ call' = Locals(call.class_targets,
                             update_remaining(call.remaining, best),
                             Append(call.selected, best),
                             SelectSeq(sorted, LAMBDA c : c # best),
                             [remaining |-> call.remaining,
                              candidate_list |-> call.candidate_list])
    /\ UNCHANGED <<catalog_vars, sample_tags, candidates, table_vars>>

\* the loop ends, by its condition or by the break, and the function
\* returns the selection with its achievement report
ReturnSelected ==
    /\ call.op = "while"
    /\ candidates # <<>>
    /\ \/ ~ loop_condition(call.remaining, call.candidate_list)
       \/ /\ loop_condition(call.remaining, call.candidate_list)
          /\ no_more_useful(sort_by_score(call.candidate_list,
                                          call.remaining),
                            call.remaining)
    /\ call' = [op |-> "sample_by_class_targets",
                class_targets |-> call.class_targets,
                ret |-> SamplingResult(call.selected,
                            achievement_of(call.selected,
                                           call.class_targets))]
    /\ UNCHANGED <<catalog_vars, sample_tags, candidates, table_vars>>

NextSelection ==
    \/ ReturnEarly
    \/ SelectBest
    \/ ReturnSelected

SpecSelection == InitSelection /\ [][NextSelection]_vars

\* an iteration has selected a candidate
Selected == call.op = "while" /\ call.selected # <<>>
\* the candidate the last iteration selected
LastSelected == call.selected[Len(call.selected)]

\* the score with the requested targets as denominators, times the product
\* of the requested targets of the classes still open
score_over_targets(sample, remaining, class_targets) ==
    LET open == open_classes(remaining)
        held == get_class_counts(sample)
    IN  sum([cls \in open |->
                Min(held[cls], remaining[cls])
                    * (product(class_targets, open) \div class_targets[cls])],
            open)

\* ------------------------------------------------------------------------
\* C26: at every selection step the candidate picked has a
\* maximal score among the unselected candidates, the score being the sum
\* over the classes with remaining > 0 of min(count, remaining) divided by
\* the originally requested target of the class.
\* ------------------------------------------------------------------------
C26_MaximalOverRequestedTargets ==
    Selected
    => \A i \in 1..Len(call.tried.candidate_list) :
          score_over_targets(LastSelected, call.tried.remaining,
                             call.class_targets)
              >= score_over_targets(call.tried.candidate_list[i],
                                    call.tried.remaining, call.class_targets)

\* the candidates of the last iteration whose score was that of the one
\* selected
tied_with_selected ==
    {i \in 1..Len(call.tried.candidate_list) :
        calculate_score(call.tried.candidate_list[i], call.tried.remaining)
            = calculate_score(LastSelected, call.tried.remaining)}

\* ------------------------------------------------------------------------
\* C27: whenever several unselected candidates are tied for the
\* highest score at a selection step, the one that comes first in the
\* original input list is selected, at every step.
\* ------------------------------------------------------------------------
C27_TiesByInputOrder ==
    Selected
    => \A i \in tied_with_selected :
          LastSelected.id <= call.tried.candidate_list[i].id

\* the objects of a class over all candidates
total_of(cls) ==
    sum([i \in 1..Len(candidates) |-> get_class_counts(candidates[i])[cls]],
        1..Len(candidates))

\* ------------------------------------------------------------------------
\* C28: sample_by_class_targets does not stop while an achievable class is
\* deficient: every class with a positive target that does not exceed the
\* total of the class's counts over all candidates is reported achieved.
\* ------------------------------------------------------------------------
C28_AchievableIsAchieved ==
    call.op = "sample_by_class_targets"
    => \A cls \in DOMAIN call.class_targets :
          /\ call.class_targets[cls] > 0
          /\ call.class_targets[cls] <= total_of(cls)
          => call.ret.target_achievement[cls].status = "achieved"

\* a selection of several candidates, one of them filling less than the
\* whole of a target, achieved the class the candidates could fill and
\* left the other partial
C28_AchievedByParts ==
    /\ call.op = "sample_by_class_targets"
    /\ call.ret.total_selected > 1
    /\ call.ret.total_selected < Len(candidates)
    /\ \E cls \in DOMAIN call.class_targets :
          /\ call.class_targets[cls] <= total_of(cls)
          /\ call.ret.target_achievement[cls].status = "achieved"
          /\ \A i \in 1..Len(candidates) :
                get_class_counts(candidates[i])[cls] < call.class_targets[cls]
    /\ \E cls \in DOMAIN call.class_targets :
          /\ call.class_targets[cls] > total_of(cls)
          /\ call.ret.target_achievement[cls].status = "partial"

\* ------------------------------------------------------------------------
\* C29: in every state reachable by webhook events the denormalized link
\* fields agree with the Annotation table: annotation_status = none implies
\* annotation_key, annotation_hash and annotation_id are all empty and no
\* Annotation record exists for the Sample; annotation_status = linked
\* implies annotation_key is set and an Annotation record for the Sample
\* exists whose id equals annotation_id.
\* ------------------------------------------------------------------------
C29_LinkFieldsAgree ==
    \A sid \in SampleIds(Db) :
        /\ samples[sid].annotation_status = "none"
           => /\ samples[sid].annotation_key = NoKey
              /\ samples[sid].annotation_hash = NULL
              /\ samples[sid].annotation_id = NoId
              /\ AnnotationsOf(Db, sid) = {}
        /\ samples[sid].annotation_status = "linked"
           => /\ samples[sid].annotation_key # NoKey
              /\ \E a \in AnnotationsOf(Db, sid) :
                    a.id = samples[sid].annotation_id

\* a Sample whose annotation was removed is linked again: its history holds
\* the removal and its annotation_id is that of a second Annotation record
C29_LinkedAgainAfterRemoval ==
    \E sid \in SampleIds(Db) :
        /\ samples[sid].annotation_status = "linked"
        /\ BagIn(SampleHistory(sid, "annotation_removed"), history)
        /\ samples[sid].annotation_id > 1
        /\ \E a \in AnnotationsOf(Db, sid) : a.id = samples[sid].annotation_id

\* ========================================================================
\* Part 1, concurrent deliveries: two requests handle the same
\* image-created record, each query and each commit of
\* _handle_image_created a step of its own (app/api/routes/webhooks.py)
\* ========================================================================
\* the two webhook requests
Requests == {1, 2}

\* the records delivered twice: an image of one bucket whose hash, if the
\* record has one, is no Sample's yet
Deliveries ==
    {[inst |-> 1, bucket |-> "b1", key |-> k, etag |-> t] :
        k \in ImageKeys, t \in {"", "h1"}}

\* file_hash = etag if etag else None
file_hash_of(e) == IF e.etag # "" THEN e.etag ELSE NULL

\* the two requests: the record, where each request stands in the handler
\* and the row its path query returned
Handling(e, pc, existing) ==
    [op |-> "image_created", e |-> e, pc |-> pc, existing |-> existing]

\* a catalog, and two requests that received the same record
InitDeliveries ==
    /\ samples \in Catalogs
    /\ annotations = {}
    /\ history = EmptyBag
    /\ issued = 0
    /\ last = NoRequest
    /\ trace = <<>>
    /\ sample_tags = {}
    /\ candidates = <<>>
    /\ \E e \in Deliveries :
          call = Handling(e, [p \in Requests |-> "by_hash"],
                          [p \in Requests |-> NoId])
    /\ NoTables

\* a request moves on; the tables it does not write stay
Moves(p, pc, existing) ==
    /\ call' = [call EXCEPT !.pc[p] = pc, !.existing[p] = existing]
    /\ UNCHANGED <<annotations, issued, last, trace, sample_tags, candidates,
                   table_vars>>

\* the hash query, which a record without eTag skips: a row found ends the
\* request with 0
SelectByHash(p) ==
    /\ call.pc[p] = "by_hash"
    /\ IF /\ file_hash_of(call.e) # NULL
          /\ existing_by_hash(Db, call.e.inst, file_hash_of(call.e)) # {}
       THEN Moves(p, "done", NoId)
       ELSE Moves(p, "by_path", NoId)
    /\ UNCHANGED <<samples, history>>

\* the path query: a soft-deleted row is reactivated, another row ends the
\* request with 0, no row leads to the INSERT
SelectByPath(p) ==
    /\ call.pc[p] = "by_path"
    /\ \E existing \in first(existing_by_path(Db, call.e.inst, call.e.bucket,
                                              call.e.key)) :
          IF existing = NoId THEN Moves(p, "insert", NoId)
          ELSE IF samples[existing].status = "deleted"
               THEN Moves(p, "reactivate", existing)
               ELSE Moves(p, "done", existing)
    /\ UNCHANGED <<samples, history>>

\* the commit of the reactivation; the bucket lists no annotation file, so
\* find_and_link_annotation changes nothing
CommitReactivation(p) ==
    /\ call.pc[p] = "reactivate"
    /\ samples' = reactivate(Db, call.existing[p], file_hash_of(call.e),
                             extract_file_stem(call.e.key)).samples
    /\ Moves(p, "done", call.existing[p])
    /\ UNCHANGED history

\* the commit of the new Sample.  The sample table has no unique constraint
\* on (minio_instance_id, bucket, object_key): the INSERT passes whatever
\* rows the path has by now.
CommitSample(p) ==
    /\ call.pc[p] = "insert"
    /\ samples' = Append(samples,
                         Sample(call.e.inst, owner_id[call.e.inst],
                                call.e.bucket, call.e.key,
                                file_hash_of(call.e),
                                extract_file_stem(call.e.key), "webhook"))
    /\ Moves(p, "history", Len(samples) + 1)
    /\ UNCHANGED history

\* the commit of the history row of the new Sample; the bucket lists no
\* annotation file
CommitHistory(p) ==
    /\ call.pc[p] = "history"
    /\ history' = add_history(history,
                              SampleHistory(call.existing[p], "created"))
    /\ Moves(p, "done", call.existing[p])
    /\ UNCHANGED samples

NextDeliveries ==
    \E p \in Requests :
        \/ SelectByHash(p)
        \/ SelectByPath(p)
        \/ CommitReactivation(p)
        \/ CommitSample(p)
        \/ CommitHistory(p)

SpecDeliveries == InitDeliveries /\ [][NextDeliveries]_vars

\* the rows of the record's path that are not deleted
NonDeletedAt(e) ==
    {i \in existing_by_path(Db, e.inst, e.bucket, e.key) :
        samples[i].status # "deleted"}

\* ------------------------------------------------------------------------
\* C30: when two deliveries of the same image-created event are processed
\* concurrently by two webhook requests, their existence checks and inserts
\* interleaved at the granularity of single database reads and writes, the
\* outcome has exactly one non-deleted Sample row for that (instance,
\* bucket, key).
\* ------------------------------------------------------------------------
C30_OneSamplePerPath ==
    (\A p \in Requests : call.pc[p] = "done")
    => Cardinality(NonDeletedAt(call.e)) = 1

====
